---------------------------- MODULE Spec2Model ----------------------------
(***************************************************************************)
(* Overlapping-model wave function collapse: the model builder             *)
(* (image_reader.rs, data/sample.rs, model.rs) and the collapse engine     *)
(* (core.rs, entropy_coord.rs, data/grid2d.rs, data/vector2.rs,            *)
(* data/direction.rs).                                                     *)
(*                                                                         *)
(* Pixels (Rgb triples) are natural numbers, one per distinct colour.      *)
(* f32 quantities (log-weights, entropy, noise) are fixed-point integers   *)
(* in thousandths of a bit; the float NaN is the value NaN below.          *)
(* Vec<T> is a sequence: element i of the Vec is element i + 1 here.       *)
(*                                                                         *)
(* Spec is a run of CoreState::run on a constructed state; SpecModel is    *)
(* Model::create and CoreState::new on any small exemplar; SpecRemoval is  *)
(* CoreCell::remove_tile applied to one cell, tile after tile.             *)
(***************************************************************************)
EXTENDS Integers, Sequences, FiniteSets, Bags, TLC

\* Largest number of cells of an output grid, and its largest sides.
MaxCells == 4
MaxGridW == 2
MaxGridH == 2
\* Entropy noise is drawn from {0, NoiseStep, ..., MaxNoise * NoiseStep}.
MaxNoise == 1
NoiseStep == 400
\* Pattern size N given on the command line.
NDim == 2
\* Exemplars of the model builder: at most MaxImgW x MaxImgH pixels,
\* MaxImgCells in all, of colours 0 .. MaxColour - 1.
MaxImgW == 3
MaxImgH == 3
MaxImgCells == 6
MaxColour == 2

\* The output sizes par_process is asked for.
MaxOutW == 5
MaxOutH == 5

\* The patterns Sample's methods are applied to: all of at most
\* MaxSampleW x MaxSampleH pixels and MaxSampleCells pixels in all, and at
\* most MaxTurns rotate_90 calls in a row.
MaxSampleW == 2
MaxSampleH == 2
MaxSampleCells == 4
MaxTurns == 4

\* The data types are exercised on grids of at most MaxSide x MaxSide cells, at
\* positions up to Margin outside them, and on heaps of at most MaxHeapLen
\* entries.
MaxSide == 3
Margin == 2
\* propagate is followed pass by pass on grids of sides up to MaxDrainSide with
\* at most MaxPairs pairs of a tile and a cell.
MaxDrainSide == 3
MaxPairs == 21

MaxHeapLen == 3

(***************************************************************************)
(* data/direction.rs                                                       *)
(***************************************************************************)
Direction == {"Up", "Down", "Left", "Right"}

ALL_DIRECTIONS == <<"Up", "Down", "Left", "Right">>

to_idx(d) ==
    CASE d = "Up" -> 0
      [] d = "Right" -> 1
      [] d = "Down" -> 2
      [] d = "Left" -> 3

\* A quarter turn instead of the opposite: Up, Right, Down, Left in a cycle.
opposite_as_turn(d) ==
    CASE d = "Up" -> "Right"
      [] d = "Right" -> "Down"
      [] d = "Down" -> "Left"
      [] d = "Left" -> "Up"

opposite(d) ==
    CASE d = "Up" -> "Down"
      [] d = "Down" -> "Up"
      [] d = "Left" -> "Right"
      [] d = "Right" -> "Left"

(***************************************************************************)
(* data/vector2.rs                                                         *)
(***************************************************************************)
Vector2(px, py) == [x |-> px, y |-> py]

VecAdd(a, b) == Vector2(a.x + b.x, a.y + b.y)

neighbor(v, d) ==
    CASE d = "Down" -> Vector2(v.x, v.y + 1)
      [] d = "Left" -> Vector2(v.x - 1, v.y)
      [] d = "Right" -> Vector2(v.x + 1, v.y)
      [] d = "Up" -> Vector2(v.x, v.y - 1)

(***************************************************************************)
(* data/grid2d.rs.  A grid is [width, height, data].                       *)
(***************************************************************************)
\* `v as usize` of an i32: a negative v wraps to a value above every grid side
\* (2^64 + v on the target; UsizeWrap + v here, within TLC's 32-bit integers).
UsizeWrap == 2147483647

AsUsize(v) == IF v < 0 THEN v + UsizeWrap ELSE v

valid_pos(g, pos) ==
    /\ AsUsize(pos.x) >= 0 /\ AsUsize(pos.x) < g.width
    /\ AsUsize(pos.y) >= 0 /\ AsUsize(pos.y) < g.height

None == [none |-> TRUE]

Some(v) == [some |-> v]

idx(g, pos) ==
    IF valid_pos(g, pos) THEN Some(AsUsize(pos.y) * g.width + AsUsize(pos.x)) ELSE None

\* `v as i32` of a usize keeps the low 32 bits: v modulo 2^32, read as a signed
\* number (I32Wrap stands for 2^32, within TLC's 32-bit integers).
I32Wrap == 65536

AsI32(v) ==
    LET low == v % I32Wrap
    IN  IF low >= I32Wrap \div 2 THEN low - I32Wrap ELSE low

to_coord(g, i) ==
    LET pos == Vector2(AsI32(i % g.width), AsI32(i \div g.width))
    IN  IF valid_pos(g, pos) THEN Some(pos) ELSE None

grid_get(g, pos) ==
    IF idx(g, pos) = None THEN None ELSE Some(g.data[idx(g, pos).some + 1])

grid_size(g) == g.width * g.height

Grid2D_init(w, h, init_val) ==
    [width |-> w, height |-> h, data |-> [i \in 1..(w * h) |-> init_val]]

\* Grid2D::set; idx(pos).unwrap() succeeds for every position it is given here.
grid_set(g, pos, item) == [g EXCEPT !.data[idx(g, pos).some + 1] = item]

\* Grid2D::clone_range.  The filter keeps the cells whose coordinate is in the
\* range, in the order of their index: row after row of the part of the range
\* that lies in the grid.
clone_range(g, origin, size) ==
    LET x_end == IF origin.x + size.x < g.width THEN origin.x + size.x ELSE g.width
        y_end == IF origin.y + size.y < g.height THEN origin.y + size.y ELSE g.height
        columns == IF x_end > origin.x THEN x_end - origin.x ELSE 0
        rows == IF y_end > origin.y THEN y_end - origin.y ELSE 0
    IN  [width |-> AsUsize(size.x), height |-> AsUsize(size.y),
         data |-> [k \in 1..(columns * rows) |->
                      grid_get(g, Vector2(origin.x + ((k - 1) % columns),
                                          origin.y + ((k - 1) \div columns))).some]]

(***************************************************************************)
(* data/sample.rs.  A sample is [region |-> grid of pixels].               *)
(***************************************************************************)
Reverse(s) == [i \in 1..Len(s) |-> s[Len(s) + 1 - i]]

rev_sample(s) ==
    [region |-> [width |-> s.region.width, height |-> s.region.height,
                 data |-> Reverse(s.region.data)]]

at(s, pos) == grid_get(s.region, pos).some

get_top_left_pixel(s) == grid_get(s.region, Vector2(0, 0)).some

\* The ranges of Sample::compatible with the Left arm a copy of the Right arm.
CompatRangeLeftAsRight(s, d) ==
    CASE d = "Down" ->
           [xs |-> 0..(s.region.width - 1), ys |-> 0..(s.region.height - 2),
            offset |-> Vector2(0, 1)]
      [] d = "Up" ->
           [xs |-> 0..(s.region.width - 1), ys |-> 1..(s.region.height - 1),
            offset |-> Vector2(0, -1)]
      [] d \in {"Left", "Right"} ->
           [xs |-> 0..(s.region.width - 2), ys |-> 0..(s.region.height - 1),
            offset |-> Vector2(1, 0)]

\* The ranges of Sample::compatible with the Up arm a copy of the Down arm.
CompatRangeUpAsDown(s, d) ==
    CASE d \in {"Up", "Down"} ->
           [xs |-> 0..(s.region.width - 1), ys |-> 0..(s.region.height - 2),
            offset |-> Vector2(0, 1)]
      [] d = "Left" ->
           [xs |-> 1..(s.region.width - 1), ys |-> 0..(s.region.height - 1),
            offset |-> Vector2(-1, 0)]
      [] d = "Right" ->
           [xs |-> 0..(s.region.width - 2), ys |-> 0..(s.region.height - 1),
            offset |-> Vector2(1, 0)]

\* The ranges (xs, ys) and the offset of Sample::compatible.
CompatRange(s, d) ==
    CASE d = "Down" ->
           [xs |-> 0..(s.region.width - 1), ys |-> 0..(s.region.height - 2),
            offset |-> Vector2(0, 1)]
      [] d = "Up" ->
           [xs |-> 0..(s.region.width - 1), ys |-> 1..(s.region.height - 1),
            offset |-> Vector2(0, -1)]
      [] d = "Left" ->
           [xs |-> 1..(s.region.width - 1), ys |-> 0..(s.region.height - 1),
            offset |-> Vector2(-1, 0)]
      [] d = "Right" ->
           [xs |-> 0..(s.region.width - 2), ys |-> 0..(s.region.height - 1),
            offset |-> Vector2(1, 0)]

compatible(self, other, d) ==
    IF other.region.width # self.region.width
          \/ other.region.height # self.region.height
    THEN FALSE
    ELSE LET r == CompatRange(self, d)
         IN  \A y \in r.ys : \A x \in r.xs :
                at(self, VecAdd(Vector2(x, y), r.offset)) = at(other, Vector2(x, y))

\* transpose::transpose(input, output, width, height) writes input[y * width + x]
\* to output[x * height + y]; the sample keeps its width and height.
transpose_sample(s) ==
    [region |->
        [width |-> s.region.width, height |-> s.region.height,
         data |-> [k \in 1..Len(s.region.data) |->
                     LET x == (k - 1) \div s.region.height
                         y == (k - 1) % s.region.height
                     IN  s.region.data[y * s.region.width + x + 1]]]]

\* rotate_90 without the reversal of the rows: the transposed pattern.
rotate_90_rows_kept(s) == transpose_sample(s)

\* The transposed data, each slice of `height` items reversed.
rotate_90(s) ==
    LET data == transpose_sample(s).region.data
    IN  [region |->
            [width |-> s.region.width, height |-> s.region.height,
             data |-> [k \in 1..(s.region.width * s.region.height) |->
                         LET row == (k - 1) \div s.region.height
                             c == (k - 1) % s.region.height
                         IN  data[row * s.region.height
                                    + (s.region.height - 1 - c) + 1]]]]

\* rotations = [self]; three times: rotate = rotate.rotate_90(), pushed.
rotate(s) ==
    <<s, rotate_90(s), rotate_90(rotate_90(s)), rotate_90(rotate_90(rotate_90(s)))>>

(***************************************************************************)
(* image_reader.rs.  An image is [width, height, pixels].                  *)
(***************************************************************************)
Image(w, h, px) == [width |-> w, height |-> h, pixels |-> px]

image_idx(img, pos) == AsUsize(pos.y) * img.width + AsUsize(pos.x)

image_at(img, pos) == img.pixels[image_idx(img, pos) + 1]

\* The loops push in the order i (outer, from xs), j (inner, from ys); the pixel
\* pushed for (i, j) is the one at x = j % width, y = i % height.
get_region(img, xs, ys, w, h) ==
    [k \in 1..(w * h) |->
        LET i == xs + ((k - 1) \div h)
            j == ys + ((k - 1) % h)
        IN  image_at(img, Vector2(j % img.width, i % img.height))]

image_sample(img, n) ==
    [p \in 1..Len(img.pixels) |->
        get_region(img, (p - 1) % img.width, (p - 1) \div img.width, n, n)]

(***************************************************************************)
(* model.rs                                                                *)
(***************************************************************************)
\* log2 of 1..32 in thousandths.
Log2Table ==
    <<0, 1000, 1585, 2000, 2322, 2585, 2807, 3000, 3170, 3322, 3459, 3585,
      3700, 3807, 3907, 4000, 4087, 4170, 4248, 4322, 4392, 4459, 4524, 4585,
      4644, 4700, 4755, 4807, 4858, 4907, 4954, 5000>>

\* The value of an f32 expression that is NaN (or -inf: both are what
\* 0f32.log2() - x / 0f32 can give).
NaN == -1000000

log2(n) == IF n = 0 THEN NaN ELSE Log2Table[n]

\* A region read by image_reader as the pattern of data/sample.rs.
RegionSample(data, n) == [region |-> [width |-> n, height |-> n, data |-> data]]

\* Retrieve image samples, then add the reversed copy of each.
UnprocessedSamples(img, n) ==
    LET raw == image_sample(img, n)
    IN  [k \in 1..(2 * Len(raw)) |->
            IF k % 2 = 1 THEN RegionSample(raw[(k + 1) \div 2], n)
            ELSE rev_sample(RegionSample(raw[k \div 2], n))]

\* The keys of the frequency map.  HashMap::into_iter yields them in an order
\* that a run fixes but the program does not control; tiles are numbered here
\* in the order of their first occurrence among the samples.
RECURSIVE Distinct(_)
Distinct(s) ==
    IF s = <<>> THEN <<>>
    ELSE LET init == Distinct(SubSeq(s, 1, Len(s) - 1))
             last == s[Len(s)]
         IN  IF \E i \in 1..Len(init) : init[i] = last THEN init
             ELSE Append(init, last)

Occurrences(s, v) == Cardinality({i \in 1..Len(s) : s[i] = v})

\* A model is [samples, freq_map, adjacency_rule]; tile t is samples[t + 1],
\* freq_map[t + 1] is its pair (weight, weight * log2 weight), and
\* adjacency_rule[t + 1][to_idx(d) + 1] is a set of tiles.
Model_of_samples(unprocessed) ==
    LET samples == Distinct(unprocessed)
        freqs == [i \in 1..Len(samples) |-> Occurrences(unprocessed, samples[i])]
    IN  [samples |-> samples,
         freq_map |-> [i \in 1..Len(samples) |->
                          <<freqs[i], freqs[i] * log2(freqs[i])>>],
         adjacency_rule |->
            [s1 \in 1..Len(samples) |->
                [di \in 1..4 |->
                    {s2 \in 0..(Len(samples) - 1) :
                        \E d \in Direction :
                            /\ to_idx(d) + 1 = di
                            /\ compatible(samples[s1], samples[s2 + 1], d)}]]]

Model_create(img, n) == Model_of_samples(UnprocessedSamples(img, n))

get_relative_freq(m, sample_id) == m.freq_map[sample_id + 1]

model_size(m) == Len(m.samples)

Tiles(m) == 0..(model_size(m) - 1)

adjacency(m, t, d) == m.adjacency_rule[t + 1][to_idx(d) + 1]

\* Initial counts taken from the adjacency set of the opposite direction.
initial_counts_of_opposite(m) ==
    [tile_a \in 1..model_size(m) |->
        [di \in 1..4 |->
            Cardinality(UNION {m.adjacency_rule[tile_a][to_idx(opposite(d)) + 1] :
                                  d \in {e \in Direction : to_idx(e) + 1 = di}})]]

\* by_direction of tile t in direction index di is result[t + 1][di + 1].
get_initial_tile_enabler_counts(m) ==
    [tile_a \in 1..model_size(m) |->
        [di \in 1..4 |-> Cardinality(m.adjacency_rule[tile_a][di])]]

(***************************************************************************)
(* core.rs: CoreCell                                                       *)
(***************************************************************************)
RECURSIVE SumOver(_, _, _)
\* The sum over the tiles of set S of component k of their relative frequency.
SumOver(m, S, k) ==
    IF S = {} THEN 0
    ELSE LET t == CHOOSE u \in S : TRUE
         IN  get_relative_freq(m, t)[k] + SumOver(m, S \ {t}, k)

total_possible_tile_freq(cell, m) == SumOver(m, cell.possible, 1)

CoreCell_new(capacity, m) ==
    LET bs == 0..(capacity - 1)
    IN  [possible |-> bs,
         sum_of_possible_tile_weights |-> SumOver(m, bs, 1),
         sum_of_possible_tile_weight_log_weights |-> SumOver(m, bs, 2),
         entropy_noise |-> 0,
         is_collpased |-> FALSE,
         tile_enabler_counts |-> <<>>]

\* total_weight.log2() - (sum_of_weight_log_weight / total_weight)
EntropyOf(weights, log_weights, noise) ==
    IF weights = 0 THEN NaN
    ELSE log2(weights) - (log_weights \div weights) + noise

entropy_no_cache(cell, m) ==
    EntropyOf(total_possible_tile_freq(cell, m), SumOver(m, cell.possible, 2), 0)

entropy(cell) ==
    EntropyOf(cell.sum_of_possible_tile_weights,
              cell.sum_of_possible_tile_weight_log_weights,
              cell.entropy_noise)

\* remove_tile without the update of the cached weight sum.
remove_tile_keeping_weights(cell, tile_index, m) ==
    LET freq == get_relative_freq(m, tile_index)
    IN  [cell EXCEPT
            !.possible = @ \ {tile_index},
            !.sum_of_possible_tile_weight_log_weights = @ - freq[2]]

\* remove_tile without the update of the cached weight-log-weight sum.
remove_tile_keeping_log_weights(cell, tile_index, m) ==
    LET freq == get_relative_freq(m, tile_index)
    IN  [cell EXCEPT
            !.possible = @ \ {tile_index},
            !.sum_of_possible_tile_weights = @ - freq[1]]

remove_tile(cell, tile_index, m) ==
    LET freq == get_relative_freq(m, tile_index)
    IN  [cell EXCEPT
            !.possible = @ \ {tile_index},
            !.sum_of_possible_tile_weights = @ - freq[1],
            !.sum_of_possible_tile_weight_log_weights = @ - freq[2]]

SetMin(S) == CHOOSE u \in S : \A v \in S : u <= v

Unreachable == [unreachable |-> TRUE]

RECURSIVE Roulette(_, _, _)
\* The loop of choose_sample_index over the possible tiles in ascending order.
Roulette(m, poss, remaining) ==
    IF poss = {} THEN Unreachable
    ELSE LET t == SetMin(poss)
             weight == get_relative_freq(m, t)[1]
         IN  IF remaining >= weight THEN Roulette(m, poss \ {t}, remaining - weight)
             ELSE Some(t)

\* choose_sample_index with the roulette running over every tile of the model
\* instead of the possible ones.
choose_sample_index_any_tile(cell, m, r) ==
    IF cell.sum_of_possible_tile_weights = 0 THEN None
    ELSE Roulette(m, Tiles(m), r)

\* r is the position drawn by rng.gen_range(0..sum_of_possible_tile_weights).
choose_sample_index(cell, m, r) ==
    IF cell.sum_of_possible_tile_weights = 0 THEN None
    ELSE Roulette(m, cell.possible, r)

get_the_only_possible_tile_index(cell) ==
    IF cell.possible = {} \/ Cardinality(cell.possible) > 1 THEN None
    ELSE Some(SetMin(cell.possible))

(***************************************************************************)
(* entropy_coord.rs                                                        *)
(***************************************************************************)
EntropyCoord(e, c) == [entropy |-> e, coord |-> c]

\* a < b on f32: false when either is NaN.
FloatLt(a, b) == a # NaN /\ b # NaN /\ a < b

\* self < other by partial_cmp, which compares other.entropy with self.entropy.
EntropyCoordLt(self, other) == FloatLt(other.entropy, self.entropy)

\* self == other, derived: both fields equal, and a NaN equals nothing.
EntropyCoordEq(self, other) ==
    /\ self.entropy # NaN
    /\ other.entropy # NaN
    /\ self.entropy = other.entropy
    /\ self.coord = other.coord

\* Ord::cmp: match (self < other, self == other).
EntropyCoord_cmp(self, other) ==
    IF EntropyCoordLt(self, other) THEN "Less"
    ELSE IF EntropyCoordEq(self, other) THEN "Equal"
    ELSE "Greater"

(***************************************************************************)
(* core.rs: CoreState                                                      *)
(***************************************************************************)
VARIABLES
    image,                        \* the exemplar the model was created from
    model,                        \* CoreState.model
    grid,                         \* CoreState.grid
    remaining_uncollapsed_cells,  \* CoreState.remaining_uncollapsed_cells
    entropy_heap,                 \* CoreState.entropy_heap, a bag of EntropyCoord
    tile_removals,                \* CoreState.tile_removals, front first
    pc,                           \* position in run(), restart() or par_process()
    next_coord,                   \* the Option returned by choose_next_cell
    skipped_entries,              \* entries its last call popped and did not take
    process_id,                   \* restart: the argument process_id
    restart_count,                \* restart: the local count
    statuses,                     \* restart: the RunStatus of the four candidates
    restart_result,               \* restart: the Option returned
    width,                        \* par_process: the argument width
    height,                       \* par_process: the argument height
    grid_res,                     \* par_process: the local grid_res
    output_grid,                  \* par_process: the local output_grid
    assigned,                     \* the positions Grid2D::set was called for
    output_pixels,                \* par_process: the Vec<Rgb> returned
    self_sample,                  \* Sample: the pattern a method is called on
    other_sample,                 \* Sample::compatible: the argument `other`
    compat_direction,             \* Sample::compatible: the argument `direction`
    compat_result,                \* Sample::compatible: the value returned
    rotated,                      \* the pattern after quarter_turns rotate_90 calls
    quarter_turns,                \* number of rotate_90 calls made in a row
    rotations,                    \* Sample::rotate: the Vec<Sample> returned
    data_call,                    \* a call of a method of the data types: [fn, arguments]
    data_ret,                     \* the value that call returned
    seed,                         \* the random draws two executions share
    twin_grids,                   \* what restart() returned in each of them
    collapse_target,              \* collapse_middle: the local heap of the strip
    quadrant_cs,                  \* collapse_middle: the four CoreStates returned
    fifo_fixpoint,                \* propagate: what the FIFO drain gives from its entry state
    popped_behind,                \* propagate: an update was taken from behind the front
    enqueued,                     \* every RemovalUpdate pushed since the run began
    iterations,                   \* run: passes of its loop that reached propagate
    snapshot,                     \* restart: the local snapshot
    candidates                    \* restart: the local candidates of the round

core_vars ==
    <<image, model, grid, remaining_uncollapsed_cells, entropy_heap,
      tile_removals, next_coord, skipped_entries>>

restart_vars == <<process_id, restart_count, statuses, restart_result>>

par_vars == <<width, height, grid_res, output_grid, assigned, output_pixels>>

sample_vars ==
    <<self_sample, other_sample, compat_direction, compat_result, rotated,
      quarter_turns, rotations>>

data_vars == <<data_call, data_ret>>

seeded_vars == <<seed, twin_grids>>

middle_vars == <<collapse_target, quadrant_cs>>

drain_vars == <<fifo_fixpoint, popped_behind, enqueued, iterations>>

candidate_vars == <<snapshot, candidates>>

vars ==
    <<core_vars, pc, restart_vars, par_vars, sample_vars, data_vars, seeded_vars,
      middle_vars, drain_vars, candidate_vars>>

\* No pair of executions is compared.
SeededIdle ==
    /\ seed = <<>>
    /\ twin_grids = <<>>

\* No restart() is followed candidate by candidate.
CandidatesIdle ==
    /\ snapshot = <<>>
    /\ candidates = <<>>

\* No propagate() is followed pass by pass.
DrainIdle ==
    /\ fifo_fixpoint = <<>>
    /\ popped_behind = FALSE
    /\ enqueued = EmptyBag
    /\ iterations = 0

\* collapse_middle() has not been called.
MiddleIdle ==
    /\ collapse_target = EmptyBag
    /\ quadrant_cs = <<>>

\* restart() has not been called.
RestartIdle ==
    /\ process_id = 0
    /\ restart_count = 0
    /\ statuses = <<>>
    /\ restart_result = [none |-> TRUE]

\* No method of the data types is under study.
DataIdle ==
    /\ data_call = [none |-> TRUE]
    /\ data_ret = [none |-> TRUE]

\* No method of a Sample is under study.
SampleIdle ==
    /\ self_sample = [none |-> TRUE]
    /\ other_sample = [none |-> TRUE]
    /\ compat_direction = [none |-> TRUE]
    /\ compat_result = [none |-> TRUE]
    /\ rotated = [none |-> TRUE]
    /\ quarter_turns = 0
    /\ rotations = <<>>

\* par_process() has not been called.
ParIdle ==
    /\ width = 0
    /\ height = 0
    /\ grid_res = <<>>
    /\ output_grid = [width |-> 0, height |-> 0, data |-> <<>>]
    /\ assigned = {}
    /\ output_pixels = <<>>

RemovalUpdate(t, c) == [tile_index |-> t, coord |-> c]

\* The exemplars a run may start from.
Exemplars ==
    { Image(1, 1, <<0>>),
      Image(2, 2, <<0, 1, 0, 0>>),
      Image(4, 3, <<0, 1, 1, 0, 1, 1, 0, 1, 1, 0, 1, 2>>) }

GridDims ==
    {d \in (1..MaxGridW) \X (1..MaxGridH) : d[1] * d[2] <= MaxCells}

NoiseSet == {k * NoiseStep : k \in 0..MaxNoise}

CellAt(g, coord) == g.data[idx(g, coord).some + 1]

Coords(g) == {to_coord(g, i).some : i \in 0..(grid_size(g) - 1)}

\* CoreState::new, with noise[i + 1] the noise drawn for the cell of index i.
CoreState_new_grid(m, w, h, noise) ==
    LET g == Grid2D_init(w, h, CoreCell_new(model_size(m), m))
        enabler_counts == get_initial_tile_enabler_counts(m)
    IN  [g EXCEPT !.data =
            [i \in 1..(w * h) |->
                [g.data[i] EXCEPT !.entropy_noise = noise[i],
                                  !.tile_enabler_counts = enabler_counts]]]

RECURSIVE BagOfSeq(_)
BagOfSeq(s) ==
    IF s = <<>> THEN EmptyBag ELSE SetToBag({Head(s)}) (+) BagOfSeq(Tail(s))

\* The heap of CoreState::new with entries that leave out the cell's noise.
CoreState_new_heap_without_noise(g) ==
    BagOfSeq([i \in 1..grid_size(g) |->
                 EntropyCoord(entropy([g.data[i] EXCEPT !.entropy_noise = 0]),
                              to_coord(g, i - 1).some)])

CoreState_new_heap(g) ==
    BagOfSeq([i \in 1..grid_size(g) |->
                 EntropyCoord(entropy(g.data[i]), to_coord(g, i - 1).some)])

Init ==
    /\ image \in Exemplars
    /\ model = Model_create(image, NDim)
    /\ \E d \in GridDims : \E noise \in [1..(d[1] * d[2]) -> NoiseSet] :
          grid = CoreState_new_grid(model, d[1], d[2], noise)
    /\ remaining_uncollapsed_cells = grid_size(grid)
    /\ entropy_heap = CoreState_new_heap(grid)
    /\ tile_removals = <<>>
    /\ pc = "choose"
    /\ next_coord = None
    /\ skipped_entries = 0
    /\ RestartIdle
    /\ ParIdle
    /\ SampleIdle
    /\ DataIdle
    /\ SeededIdle
    /\ DrainIdle
    /\ CandidatesIdle
    /\ MiddleIdle

\* The entries BinaryHeap::pop may return: one no other entry is above.  With a
\* NaN entry in the heap the comparisons are not an order and the layout decides.
PopCandidates(heap) ==
    IF \E e \in BagToSet(heap) : e.entropy = NaN THEN BagToSet(heap)
    ELSE {e \in BagToSet(heap) : \A o \in BagToSet(heap) : ~EntropyCoordLt(e, o)}

\* choose_next_cell without the test of the collapsed flag.
TakesAnyCell(cell) == TRUE

\* Whether choose_next_cell takes the cell of a popped entry.
TakesCell(cell) == ~cell.is_collpased

RECURSIVE choose_next_cell(_, _)
\* The results choose_next_cell can have on grid g and heap: [coord, heap,
\* skipped] with coord the Option returned, heap the entries left and skipped
\* the number of entries popped and not taken.
choose_next_cell(g, heap) ==
    IF heap = EmptyBag THEN {[coord |-> None, heap |-> heap, skipped |-> 0]}
    ELSE UNION {
           IF TakesCell(CellAt(g, e.coord))
           THEN {[coord |-> Some(e.coord), heap |-> heap (-) SetToBag({e}),
                  skipped |-> 0]}
           ELSE {[res EXCEPT !.skipped = @ + 1] :
                    res \in choose_next_cell(g, heap (-) SetToBag({e}))} :
           e \in PopCandidates(heap)}

\* The head of the loop of run() with cells left: choose_next_cell, and the
\* return of Failed when it gives None.
ChooseNextCell ==
    /\ pc = "choose"
    /\ remaining_uncollapsed_cells > 0
    /\ \E res \in choose_next_cell(grid, entropy_heap) :
          /\ entropy_heap' = res.heap
          /\ next_coord' = res.coord
          /\ skipped_entries' = res.skipped
          /\ pc' = IF res.coord = None THEN "Failed" ELSE "collapse"
    /\ UNCHANGED <<image, model, grid, remaining_uncollapsed_cells, tile_removals>>
    /\ UNCHANGED <<restart_vars, par_vars, sample_vars, data_vars,
                   seeded_vars, candidate_vars, drain_vars, middle_vars>>

RECURSIVE RemovalsPushedTwice(_, _)
\* The loop over cell.possible with push_back called twice for each tile.
RemovalsPushedTwice(S, coord) ==
    IF S = {} THEN <<>>
    ELSE <<RemovalUpdate(SetMin(S), coord), RemovalUpdate(SetMin(S), coord)>>
             \o RemovalsPushedTwice(S \ {SetMin(S)}, coord)

\* The removal updates collapse_cell_at pushes, in ascending tile order.
RECURSIVE RemovalsOf(_, _)
RemovalsOf(S, coord) ==
    IF S = {} THEN <<>>
    ELSE <<RemovalUpdate(SetMin(S), coord)>> \o RemovalsOf(S \ {SetMin(S)}, coord)

CollapseCellAt ==
    /\ pc = "collapse"
    /\ LET coord == next_coord.some
           i == idx(grid, coord).some + 1
           cell == grid.data[i]
       IN  IF cell.sum_of_possible_tile_weights = 0
           THEN /\ pc' = "Failed"
                /\ UNCHANGED <<grid, tile_removals>>
           ELSE \E r \in 0..(cell.sum_of_possible_tile_weights - 1) :
                  LET chosen == choose_sample_index(cell, model, r)
                  IN  IF chosen = Unreachable
                      THEN /\ pc' = "Panicked"
                           /\ UNCHANGED <<grid, tile_removals>>
                      ELSE /\ grid' = [grid EXCEPT !.data[i] =
                                          [cell EXCEPT !.is_collpased = TRUE,
                                                       !.possible = {chosen.some}]]
                           /\ tile_removals' = tile_removals \o
                                 RemovalsOf(cell.possible \ {chosen.some}, coord)
                           /\ pc' = "propagate"
    /\ UNCHANGED <<image, model, remaining_uncollapsed_cells, entropy_heap,
                   next_coord, skipped_entries>>
    /\ UNCHANGED <<restart_vars, par_vars, sample_vars, data_vars,
                   seeded_vars, candidate_vars, drain_vars, middle_vars>>

\* The body of the loop over the compatible tiles with the count of direction d
\* decremented instead of the count of opposite(d).
PropagateTileSameDirection(st, m, ncoord, d, compatible_tile) ==
    LET ni == idx(st.grid, ncoord).some + 1
        od == to_idx(d) + 1
        nb == st.grid.data[ni]
        count == nb.tile_enabler_counts[compatible_tile + 1][od]
        nb1 == [nb EXCEPT !.tile_enabler_counts[compatible_tile + 1][od] = count - 1]
        nb2 == remove_tile(nb1, compatible_tile, m)
    IN  IF count = 0 THEN st
        ELSE IF count - 1 # 0 THEN [st EXCEPT !.grid.data[ni] = nb1]
        ELSE IF nb1.is_collpased
                  \/ \E k \in (1..4) \ {od} :
                        nb1.tile_enabler_counts[compatible_tile + 1][k] = 0
             THEN [st EXCEPT !.grid.data[ni] = nb1]
             ELSE [grid |-> [st.grid EXCEPT !.data[ni] = nb2],
                   heap |-> st.heap (+) SetToBag({EntropyCoord(entropy(nb2), ncoord)}),
                   queue |-> Append(st.queue, RemovalUpdate(compatible_tile, ncoord))]

\* The body of the loop over the compatible tiles with the test of the collapsed
\* flag and of the other directions made before the decrement instead of after
\* it.
PropagateTileTestFirst(st, m, ncoord, d, compatible_tile) ==
    LET ni == idx(st.grid, ncoord).some + 1
        od == to_idx(opposite(d)) + 1
        nb == st.grid.data[ni]
        count == nb.tile_enabler_counts[compatible_tile + 1][od]
        nb1 == [nb EXCEPT !.tile_enabler_counts[compatible_tile + 1][od] = count - 1]
        nb2 == remove_tile(nb1, compatible_tile, m)
    IN  IF count = 0 THEN st
        ELSE IF nb.is_collpased
                  \/ \E k \in (1..4) \ {od} :
                        nb.tile_enabler_counts[compatible_tile + 1][k] = 0
             THEN st
        ELSE IF count - 1 # 0 THEN [st EXCEPT !.grid.data[ni] = nb1]
        ELSE [grid |-> [st.grid EXCEPT !.data[ni] = nb2],
              heap |-> st.heap (+) SetToBag({EntropyCoord(entropy(nb2), ncoord)}),
              queue |-> Append(st.queue, RemovalUpdate(compatible_tile, ncoord))]

\* The body of the loop over the compatible tiles: st is [grid, heap, queue].
PropagateTile(st, m, ncoord, d, compatible_tile) ==
    LET ni == idx(st.grid, ncoord).some + 1
        od == to_idx(opposite(d)) + 1
        nb == st.grid.data[ni]
        count == nb.tile_enabler_counts[compatible_tile + 1][od]
        nb1 == [nb EXCEPT !.tile_enabler_counts[compatible_tile + 1][od] = count - 1]
        nb2 == remove_tile(nb1, compatible_tile, m)
    IN  IF count = 0 THEN st
        ELSE IF count - 1 # 0 THEN [st EXCEPT !.grid.data[ni] = nb1]
        ELSE IF nb1.is_collpased
                  \/ \E k \in (1..4) \ {od} :
                        nb1.tile_enabler_counts[compatible_tile + 1][k] = 0
             THEN [st EXCEPT !.grid.data[ni] = nb1]
             ELSE [grid |-> [st.grid EXCEPT !.data[ni] = nb2],
                   heap |-> st.heap (+) SetToBag({EntropyCoord(entropy(nb2), ncoord)}),
                   queue |-> Append(st.queue, RemovalUpdate(compatible_tile, ncoord))]

RECURSIVE PropagateTiles(_, _, _, _, _)
PropagateTiles(st, m, ncoord, d, S) ==
    IF S = {} THEN st
    ELSE PropagateTiles(PropagateTile(st, m, ncoord, d, SetMin(S)),
                        m, ncoord, d, S \ {SetMin(S)})

RECURSIVE PropagateDirections(_, _, _, _)
\* The loop 'dir over ALL_DIRECTIONS from position k for one removal update.
PropagateDirections(st, m, removal_update, k) ==
    IF k > Len(ALL_DIRECTIONS) THEN st
    ELSE LET d == ALL_DIRECTIONS[k]
             ncoord == neighbor(removal_update.coord, d)
         IN  IF grid_get(st.grid, ncoord) = None
             THEN PropagateDirections(st, m, removal_update, k + 1)
             ELSE PropagateDirections(
                      PropagateTiles(st, m, ncoord, d,
                                     adjacency(m, removal_update.tile_index, d)),
                      m, removal_update, k + 1)

\* One pass of the loop of propagate: pop_front and the four directions.  A
\* pass on an empty queue leaves everything as it is.
PopFront(st, m) ==
    IF st.queue = <<>> THEN st
    ELSE PropagateDirections([st EXCEPT !.queue = Tail(@)], m, Head(st.queue), 1)

RECURSIVE PopFronts(_, _, _)
\* At most n passes of the loop, ending early on an empty queue.
PopFronts(st, m, n) ==
    IF n = 0 \/ st.queue = <<>> THEN st
    ELSE PopFronts(PopFront(st, m), m, n - 1)

RECURSIVE propagate(_, _)
\* The loop of propagate, until the queue is empty.  The passes are taken
\* eight at a time, which keeps the evaluation of long queues shallow.
propagate(st, m) ==
    IF st.queue = <<>> THEN st
    ELSE propagate(PopFronts(st, m, 8), m)

\* self.propagate() and self.remaining_uncollapsed_cells -= 1 in run().
Propagate ==
    /\ pc = "propagate"
    /\ LET st == propagate([grid |-> grid, heap |-> entropy_heap,
                            queue |-> tile_removals], model)
       IN  /\ grid' = st.grid
           /\ entropy_heap' = st.heap
           /\ tile_removals' = st.queue
    /\ remaining_uncollapsed_cells' = remaining_uncollapsed_cells - 1
    /\ pc' = "choose"
    /\ UNCHANGED <<image, model, next_coord, skipped_entries>>
    /\ UNCHANGED <<restart_vars, par_vars, sample_vars, data_vars,
                   seeded_vars, candidate_vars, drain_vars, middle_vars>>

\* The loop of run() ends: (RunStatus::Succeeded, &self.grid).
RunSucceeded ==
    /\ pc = "choose"
    /\ remaining_uncollapsed_cells = 0
    /\ pc' = "Succeeded"
    /\ UNCHANGED <<image, model, grid, remaining_uncollapsed_cells, entropy_heap,
                   tile_removals, next_coord, skipped_entries>>
    /\ UNCHANGED <<restart_vars, par_vars, sample_vars, data_vars,
                   seeded_vars, candidate_vars, drain_vars, middle_vars>>

Next ==
    \/ ChooseNextCell
    \/ CollapseCellAt
    \/ Propagate
    \/ RunSucceeded

Spec == Init /\ [][Next]_vars

(***************************************************************************)
(* Construction alone: Model::create and CoreState::new on any small        *)
(* exemplar.                                                               *)
(***************************************************************************)
ImageDims ==
    {d \in (1..MaxImgW) \X (1..MaxImgH) : d[1] * d[2] <= MaxImgCells}

SmallImages ==
    UNION {{Image(d[1], d[2], px) : px \in [1..(d[1] * d[2]) -> 0..(MaxColour - 1)]} :
              d \in ImageDims}

NoModel == [samples |-> <<>>, freq_map |-> <<>>, adjacency_rule |-> <<>>]

NoGrid == [width |-> 0, height |-> 0, data |-> <<>>]

InitModel ==
    /\ image \in SmallImages \cup Exemplars
    /\ model = NoModel
    /\ grid = NoGrid
    /\ remaining_uncollapsed_cells = 0
    /\ entropy_heap = EmptyBag
    /\ tile_removals = <<>>
    /\ pc = "create"
    /\ next_coord = None
    /\ skipped_entries = 0
    /\ RestartIdle
    /\ ParIdle
    /\ SampleIdle
    /\ DataIdle
    /\ SeededIdle
    /\ DrainIdle
    /\ CandidatesIdle
    /\ MiddleIdle

\* Model::create(img_path, n_dimensions)
ModelCreate ==
    /\ pc = "create"
    /\ model' = Model_create(image, NDim)
    /\ pc' = "new"
    /\ UNCHANGED <<image, grid, remaining_uncollapsed_cells, entropy_heap,
                   tile_removals, next_coord, skipped_entries>>
    /\ UNCHANGED <<restart_vars, par_vars, sample_vars, data_vars,
                   seeded_vars, candidate_vars, drain_vars, middle_vars>>

\* CoreState::new on the model just created.
CoreStateNew ==
    /\ pc = "new"
    /\ \E d \in GridDims : \E noise \in [1..(d[1] * d[2]) -> NoiseSet] :
          grid' = CoreState_new_grid(model, d[1], d[2], noise)
    /\ remaining_uncollapsed_cells' = grid_size(grid')
    /\ entropy_heap' = CoreState_new_heap(grid')
    /\ pc' = "choose"
    /\ UNCHANGED <<image, model, tile_removals, next_coord, skipped_entries>>
    /\ UNCHANGED <<restart_vars, par_vars, sample_vars, data_vars,
                   seeded_vars, candidate_vars, drain_vars, middle_vars>>

NextModel ==
    \/ ModelCreate
    \/ CoreStateNew

SpecModel == InitModel /\ [][NextModel]_vars

(***************************************************************************)
(* remove_tile alone: one cell of a new CoreState loses its tiles one by   *)
(* one, in any order.                                                      *)
(***************************************************************************)
InitRemoval ==
    /\ image \in Exemplars
    /\ model = Model_create(image, NDim)
    /\ \E noise \in [1..1 -> NoiseSet] : grid = CoreState_new_grid(model, 1, 1, noise)
    /\ remaining_uncollapsed_cells = grid_size(grid)
    /\ entropy_heap = CoreState_new_heap(grid)
    /\ tile_removals = <<>>
    /\ pc = "remove_tile"
    /\ next_coord = None
    /\ skipped_entries = 0
    /\ RestartIdle
    /\ ParIdle
    /\ SampleIdle
    /\ DataIdle
    /\ SeededIdle
    /\ DrainIdle
    /\ CandidatesIdle
    /\ MiddleIdle

RemoveTile ==
    /\ pc = "remove_tile"
    /\ \E t \in grid.data[1].possible :
          grid' = [grid EXCEPT !.data[1] = remove_tile(@, t, model)]
    /\ UNCHANGED <<image, model, remaining_uncollapsed_cells, entropy_heap,
                   tile_removals, pc, next_coord, skipped_entries>>
    /\ UNCHANGED <<restart_vars, par_vars, sample_vars, data_vars,
                   seeded_vars, candidate_vars, drain_vars, middle_vars>>

NextRemoval == RemoveTile

SpecRemoval == InitRemoval /\ [][NextRemoval]_vars

(***************************************************************************)
(* run() on an exemplar whose model admits a contradiction on a 2x2 grid.  *)
(***************************************************************************)
ContradictionExemplar == Image(4, 3, <<0, 1, 2, 1, 2, 1, 0, 2, 1, 0, 0, 1>>)

InitContradiction ==
    /\ image = ContradictionExemplar
    /\ model = Model_create(image, NDim)
    /\ \E noise \in [1..4 -> NoiseSet] :
          grid = CoreState_new_grid(model, 2, 2, noise)
    /\ remaining_uncollapsed_cells = grid_size(grid)
    /\ entropy_heap = CoreState_new_heap(grid)
    /\ tile_removals = <<>>
    /\ pc = "choose"
    /\ next_coord = None
    /\ skipped_entries = 0
    /\ RestartIdle
    /\ ParIdle
    /\ SampleIdle
    /\ DataIdle
    /\ SeededIdle
    /\ DrainIdle
    /\ CandidatesIdle
    /\ MiddleIdle

SpecContradiction == InitContradiction /\ [][Next]_vars

(***************************************************************************)
(* run() on a 3x3 grid for a model built, as Model::create builds it from   *)
(* the extracted samples, from two patterns that share no colour.          *)
(***************************************************************************)
IncompatiblePatterns ==
    <<RegionSample(<<0, 1, 2, 3>>, NDim), RegionSample(<<4, 5, 6, 7>>, NDim)>>

InitIncompatible ==
    /\ image = Image(0, 0, <<>>)
    /\ model = Model_of_samples(IncompatiblePatterns)
    /\ \E k \in NoiseSet :
          grid = CoreState_new_grid(model, 3, 3, [i \in 1..9 |-> k])
    /\ remaining_uncollapsed_cells = grid_size(grid)
    /\ entropy_heap = CoreState_new_heap(grid)
    /\ tile_removals = <<>>
    /\ pc = "choose"
    /\ next_coord = None
    /\ skipped_entries = 0
    /\ RestartIdle
    /\ ParIdle
    /\ SampleIdle
    /\ DataIdle
    /\ SeededIdle
    /\ DrainIdle
    /\ CandidatesIdle
    /\ MiddleIdle

SpecIncompatible == InitIncompatible /\ [][Next]_vars

(***************************************************************************)
(* CoreState::restart.  Each candidate is a clone of the snapshot advanced *)
(* by run(); what run() returns for it is an input of the round.           *)
(***************************************************************************)
RunStatus == {"Succeeded", "Failed"}

retry_count == 30

CandidateCount == 4

ProcessIds == 0..3

InitRestart ==
    /\ image \in Exemplars
    /\ model = Model_create(image, NDim)
    /\ grid = CoreState_new_grid(model, 1, 1, [i \in 1..1 |-> 0])
    /\ remaining_uncollapsed_cells = grid_size(grid)
    /\ entropy_heap = CoreState_new_heap(grid)
    /\ tile_removals = <<>>
    /\ next_coord = None
    /\ skipped_entries = 0
    /\ pc = "restart_loop"
    /\ process_id \in ProcessIds
    /\ restart_count = 0
    /\ statuses = <<>>
    /\ restart_result = None
    /\ ParIdle
    /\ SampleIdle
    /\ DataIdle
    /\ SeededIdle
    /\ DrainIdle
    /\ CandidatesIdle
    /\ MiddleIdle

\* One pass of the loop of restart(): four candidates run, find_any takes the
\* grid of a candidate that succeeded, and the test of count follows.
RestartRound ==
    /\ pc = "restart_loop"
    /\ restart_count' = restart_count + 1
    /\ \E st \in [1..CandidateCount -> RunStatus] :
          /\ statuses' = st
          /\ IF \E k \in 1..CandidateCount : st[k] = "Succeeded"
             THEN /\ \E k \in 1..CandidateCount :
                        /\ st[k] = "Succeeded"
                        /\ restart_result' = Some(k)
                  /\ pc' = "restart_returned"
             ELSE IF restart_count' > retry_count
             THEN /\ restart_result' = None
                  /\ pc' = "restart_returned"
             ELSE /\ restart_result' = restart_result
                  /\ pc' = pc
    /\ UNCHANGED <<core_vars, process_id, par_vars, sample_vars, data_vars,
                   seeded_vars, candidate_vars, drain_vars, middle_vars>>

NextRestart == RestartRound

SpecRestart == InitRestart /\ [][NextRestart]_vars

(***************************************************************************)
(* CoreState::par_process.  What collapse_middle and the four restart()     *)
(* calls compute is an input of each pass of the loop: SolvedGrid is the   *)
(* grid of CoreState::new with every cell as the separator collapse or its *)
(* quadrant's run leaves it, collapsed to one tile, and each restart()     *)
(* returns Some of its quadrant or None.                                   *)
(***************************************************************************)
ParDims ==
    {d \in (1..MaxOutW) \X (1..MaxOutH) :
        /\ d[1] \div 2 >= (NDim \div 2) + 1
        /\ d[2] \div 2 >= (NDim \div 2) + 1}

\* The tilings a pass may end with are told apart by a shift of the tiles.
Shifts == 0..1

\* The cell of index i holds tile (i + shift) % model.size().
SolvedGrid(m, w, h, shift) ==
    LET cell == CoreCell_new(model_size(m), m)
    IN  [width |-> w, height |-> h,
         data |-> [i \in 1..(w * h) |->
                      [cell EXCEPT !.is_collpased = TRUE,
                                   !.possible = {(i - 1 + shift) % model_size(m)}]]]

\* make_grid for the quadrants left, right, left_bottom, right_bottom.
make_grid(g, o_x, o_y, s_x, s_y) == clone_range(g, Vector2(o_x, o_y), Vector2(s_x, s_y))

Quadrants(g) ==
    LET middle == g.width \div 2
        vertical_middle == g.height \div 2
    IN  <<make_grid(g, 0, 0, middle, vertical_middle),
          make_grid(g, middle, 0, middle, vertical_middle),
          make_grid(g, 0, vertical_middle, middle, vertical_middle),
          make_grid(g, middle, vertical_middle, middle, vertical_middle)>>

\* flat_map over the Options of restart(): the Some values, in order.
RECURSIVE FlatMapSome(_)
FlatMapSome(options) ==
    IF options = <<>> THEN <<>>
    ELSE (IF Head(options) = None THEN <<>> ELSE <<Head(options).some>>)
             \o FlatMapSome(Tail(options))

InitPar ==
    /\ image \in Exemplars
    /\ model = Model_create(image, NDim)
    /\ \E d \in ParDims : width = d[1] /\ height = d[2]
    /\ grid = NoGrid
    /\ remaining_uncollapsed_cells = 0
    /\ entropy_heap = EmptyBag
    /\ tile_removals = <<>>
    /\ next_coord = None
    /\ skipped_entries = 0
    /\ pc = "split"
    /\ grid_res = <<>>
    /\ output_grid = NoGrid
    /\ assigned = {}
    /\ output_pixels = <<>>
    /\ RestartIdle
    /\ SampleIdle
    /\ DataIdle
    /\ SeededIdle
    /\ DrainIdle
    /\ CandidatesIdle
    /\ MiddleIdle

\* One pass of `while res.len() < 4`: CoreState::new, collapse_middle and the
\* four restart() calls.  The grid of corestate is not read after the pass.
SplitAttempt ==
    /\ pc = "split"
    /\ Len(grid_res) < 4
    /\ \E shift \in Shifts : \E succeeded \in [1..4 -> BOOLEAN] :
          LET quadrants == Quadrants(SolvedGrid(model, width, height, shift))
          IN  grid_res' = FlatMapSome([q \in 1..4 |->
                  IF succeeded[q] THEN Some(quadrants[q]) ELSE None])
    /\ pc' = IF Len(grid_res') < 4 THEN "split" ELSE "assemble_left"
    /\ UNCHANGED <<core_vars, restart_vars, sample_vars, data_vars, seeded_vars, candidate_vars, drain_vars, middle_vars,
                   width, height, output_grid, assigned,
                   output_pixels>>

RECURSIVE CopyQuadrant(_, _, _, _, _)
\* The loop over quadrant.enumerate() from index k: st is [grid, assigned].
CopyQuadrant(st, quadrant, dx, dy, k) ==
    IF k > Len(quadrant.data) THEN st
    ELSE LET coord == to_coord(quadrant, k - 1).some
             target == Vector2(coord.x + dx, coord.y + dy)
             tile_index == get_the_only_possible_tile_index(quadrant.data[k])
         IN  IF tile_index = None
             THEN CopyQuadrant(st, quadrant, dx, dy, k + 1)
             ELSE CopyQuadrant([grid |-> grid_set(st.grid, target, tile_index.some),
                                assigned |-> st.assigned \cup {target}],
                               quadrant, dx, dy, k + 1)

\* Grid2D::init(width, height, 0) and the loop over left.
AssembleLeft ==
    /\ pc = "assemble_left"
    /\ LET st == CopyQuadrant([grid |-> Grid2D_init(width, height, 0),
                               assigned |-> {}], grid_res[1], 0, 0, 1)
       IN  output_grid' = st.grid /\ assigned' = st.assigned
    /\ pc' = "assemble_right"
    /\ UNCHANGED <<core_vars, restart_vars, sample_vars, data_vars, seeded_vars, candidate_vars, drain_vars, middle_vars,
                   width, height, grid_res, output_pixels>>

AssembleRight ==
    /\ pc = "assemble_right"
    /\ LET st == CopyQuadrant([grid |-> output_grid, assigned |-> assigned],
                              grid_res[2], width \div 2, 0, 1)
       IN  output_grid' = st.grid /\ assigned' = st.assigned
    /\ pc' = "assemble_left_bottom"
    /\ UNCHANGED <<core_vars, restart_vars, sample_vars, data_vars, seeded_vars, candidate_vars, drain_vars, middle_vars,
                   width, height, grid_res, output_pixels>>

AssembleLeftBottom ==
    /\ pc = "assemble_left_bottom"
    /\ LET st == CopyQuadrant([grid |-> output_grid, assigned |-> assigned],
                              grid_res[3], 0, height \div 2, 1)
       IN  output_grid' = st.grid /\ assigned' = st.assigned
    /\ pc' = "assemble_right_bottom"
    /\ UNCHANGED <<core_vars, restart_vars, sample_vars, data_vars, seeded_vars, candidate_vars, drain_vars, middle_vars,
                   width, height, grid_res, output_pixels>>

AssembleRightBottom ==
    /\ pc = "assemble_right_bottom"
    /\ LET st == CopyQuadrant([grid |-> output_grid, assigned |-> assigned],
                              grid_res[4], width \div 2, height \div 2, 1)
       IN  output_grid' = st.grid /\ assigned' = st.assigned
    /\ pc' = "render"
    /\ UNCHANGED <<core_vars, restart_vars, sample_vars, data_vars, seeded_vars, candidate_vars, drain_vars, middle_vars,
                   width, height, grid_res, output_pixels>>

\* The map over output_grid.data that par_process returns.
Render ==
    /\ pc = "render"
    /\ output_pixels' =
          [i \in 1..Len(output_grid.data) |->
              get_top_left_pixel(model.samples[output_grid.data[i] + 1])]
    /\ pc' = "par_returned"
    /\ UNCHANGED <<core_vars, restart_vars, sample_vars, data_vars, seeded_vars, candidate_vars, drain_vars, middle_vars,
                   width, height, grid_res, output_grid,
                   assigned>>

NextPar ==
    \/ SplitAttempt
    \/ AssembleLeft
    \/ AssembleRight
    \/ AssembleLeftBottom
    \/ AssembleRightBottom
    \/ Render

\* par_process keeps running while it has a step to take.
SpecPar == InitPar /\ [][NextPar]_vars /\ WF_vars(NextPar)

(***************************************************************************)
(* data/sample.rs alone: compatible, rotate_90 and rotate on given          *)
(* patterns.                                                               *)
(***************************************************************************)
SampleDims ==
    {d \in (1..MaxSampleW) \X (1..MaxSampleH) : d[1] * d[2] <= MaxSampleCells}

PatternsOf(w, h, colours) ==
    {[region |-> [width |-> w, height |-> h, data |-> px]] :
        px \in [1..(w * h) -> colours]}

SmallSamples ==
    UNION {PatternsOf(d[1], d[2], 0..(MaxColour - 1)) : d \in SampleDims}

\* The patterns of the unit tests are 3x3 over two colours, [0, 0, 0] (here 0)
\* and [136, 136, 255] (here 1).
TestSize == 3

TestColours == {0, 1}

TestSizeSamples == PatternsOf(TestSize, TestSize, TestColours)

\* s1 and s2 of test_eq (s1 is also the s1 of test_rotate), s1 and s2 of
\* test_neq.
TestSamples ==
    { RegionSample(<<0, 1, 0, 0, 1, 0, 1, 1, 1>>, TestSize),
      RegionSample(<<1, 0, 0, 1, 0, 0, 1, 1, 1>>, TestSize),
      RegionSample(<<0, 0, 1, 0, 0, 1, 1, 1, 1>>, TestSize),
      RegionSample(<<0, 1, 0, 1, 1, 1, 0, 1, 0>>, TestSize) }

\* (self, other): all pairs of small patterns, and every test-sized pattern
\* with itself, with a pattern of the tests and with a 1x1 pattern.
SamplePairs ==
    (SmallSamples \X SmallSamples)
        \cup {<<s, s>> : s \in TestSizeSamples}
        \cup (TestSizeSamples \X TestSamples)
        \cup (TestSizeSamples \X PatternsOf(1, 1, {0}))

InitSample ==
    /\ image = Image(0, 0, <<>>)
    /\ model = NoModel
    /\ grid = NoGrid
    /\ remaining_uncollapsed_cells = 0
    /\ entropy_heap = EmptyBag
    /\ tile_removals = <<>>
    /\ pc = "sample"
    /\ next_coord = None
    /\ skipped_entries = 0
    /\ RestartIdle
    /\ ParIdle
    /\ DataIdle
    /\ SeededIdle
    /\ DrainIdle
    /\ CandidatesIdle
    /\ MiddleIdle
    /\ \E pair \in SamplePairs :
          /\ self_sample = pair[1]
          /\ other_sample = pair[2]
    /\ compat_direction = None
    /\ compat_result = None
    /\ rotated = self_sample
    /\ quarter_turns = 0
    /\ rotations = <<>>

\* self.compatible(&other, direction)
Compatible ==
    /\ pc = "sample"
    /\ \E d \in Direction :
          /\ compat_direction' = Some(d)
          /\ compat_result' = Some(compatible(self_sample, other_sample, d))
    /\ pc' = "compared"
    /\ UNCHANGED <<core_vars, restart_vars, par_vars, data_vars, seeded_vars, candidate_vars, drain_vars, middle_vars,
                   self_sample, other_sample,
                   rotated, quarter_turns, rotations>>

\* rotated = rotated.rotate_90()
Rotate90 ==
    /\ pc \in {"sample", "rotating"}
    /\ quarter_turns < MaxTurns
    /\ rotated' = rotate_90(rotated)
    /\ quarter_turns' = quarter_turns + 1
    /\ pc' = "rotating"
    /\ UNCHANGED <<core_vars, restart_vars, par_vars, data_vars, seeded_vars, candidate_vars, drain_vars, middle_vars,
                   self_sample, other_sample,
                   compat_direction, compat_result, rotations>>

\* self.rotate()
Rotate ==
    /\ pc = "sample"
    /\ rotations' = rotate(self_sample)
    /\ pc' = "rotate_returned"
    /\ UNCHANGED <<core_vars, restart_vars, par_vars, data_vars, seeded_vars, candidate_vars, drain_vars, middle_vars,
                   self_sample, other_sample,
                   compat_direction, compat_result, rotated, quarter_turns>>

NextSample ==
    \/ Compatible
    \/ Rotate90
    \/ Rotate

SpecSample == InitSample /\ [][NextSample]_vars

(***************************************************************************)
(* The data types alone: Grid2D::idx and to_coord, Direction, Vector2,      *)
(* EntropyCoord and the heap of EntropyCoord, each called once on given     *)
(* arguments.                                                              *)
(***************************************************************************)
DataGrids ==
    {[width |-> w, height |-> h, data |-> <<>>] : w \in 1..MaxSide, h \in 1..MaxSide}

DataPositions ==
    {Vector2(x, y) : x \in (0 - Margin)..(MaxSide + Margin - 1),
                     y \in (0 - Margin)..(MaxSide + Margin - 1)}

\* Indices inside a grid, just past its end, and those whose quotient by the
\* width is a multiple of 2^32.
DataIndices(g) ==
    (0..(grid_size(g) + Margin))
        \cup {I32Wrap * g.width + k : k \in 0..(grid_size(g) - 1)}

DataEntropies == NoiseSet \cup {NaN}

DataEntries ==
    {EntropyCoord(e, c) : e \in DataEntropies, c \in {Vector2(0, 0), Vector2(1, 0)}}

\* Heaps of distinct entries; an emptied cell leaves NaN entries (entropy()
\* of a cell whose weight sum is 0).
DataHeaps ==
    {SetToBag(S) : S \in {T \in SUBSET DataEntries :
                             T # {} /\ Cardinality(T) <= MaxHeapLen}}

InitData ==
    /\ image = Image(0, 0, <<>>)
    /\ model = NoModel
    /\ grid = NoGrid
    /\ remaining_uncollapsed_cells = 0
    /\ entropy_heap = EmptyBag
    /\ tile_removals = <<>>
    /\ pc = "call"
    /\ next_coord = None
    /\ skipped_entries = 0
    /\ RestartIdle
    /\ ParIdle
    /\ SampleIdle
    /\ SeededIdle
    /\ DrainIdle
    /\ CandidatesIdle
    /\ MiddleIdle
    /\ data_ret = None
    /\ \/ \E a \in DataEntries : \E b \in DataEntries :
             data_call = [fn |-> "cmp", self |-> a, other |-> b]
       \/ \E h \in DataHeaps : data_call = [fn |-> "pop", heap |-> h]
       \/ \E g \in DataGrids : \E p \in DataPositions :
             data_call = [fn |-> "idx", grid |-> g, pos |-> p]
       \/ \E g \in DataGrids : \E i \in DataIndices(g) :
             data_call = [fn |-> "to_coord", grid |-> g, index |-> i]
       \/ \E d \in Direction : data_call = [fn |-> "to_idx", direction |-> d]
       \/ \E d \in Direction : data_call = [fn |-> "opposite", direction |-> d]
       \/ \E p \in DataPositions : \E d \in Direction :
             data_call = [fn |-> "neighbor", pos |-> p, direction |-> d]

DataUnchanged ==
    UNCHANGED <<core_vars, restart_vars, par_vars, sample_vars, seeded_vars, candidate_vars, drain_vars,
                middle_vars, data_call>>

\* self.cmp(&other)
Cmp ==
    /\ pc = "call"
    /\ data_call.fn = "cmp"
    /\ data_ret' = EntropyCoord_cmp(data_call.self, data_call.other)
    /\ pc' = "returned"
    /\ DataUnchanged

\* BinaryHeap::pop on a heap that is not empty
HeapPop ==
    /\ pc = "call"
    /\ data_call.fn = "pop"
    /\ \E e \in PopCandidates(data_call.heap) : data_ret' = Some(e)
    /\ pc' = "returned"
    /\ DataUnchanged

\* grid.idx(pos)
GridIdx ==
    /\ pc = "call"
    /\ data_call.fn = "idx"
    /\ data_ret' = idx(data_call.grid, data_call.pos)
    /\ pc' = "returned"
    /\ DataUnchanged

\* grid.to_coord(index)
GridToCoord ==
    /\ pc = "call"
    /\ data_call.fn = "to_coord"
    /\ data_ret' = to_coord(data_call.grid, data_call.index)
    /\ pc' = "returned"
    /\ DataUnchanged

\* direction.to_idx()
ToIdx ==
    /\ pc = "call"
    /\ data_call.fn = "to_idx"
    /\ data_ret' = to_idx(data_call.direction)
    /\ pc' = "returned"
    /\ DataUnchanged

\* direction.opposite()
Opposite ==
    /\ pc = "call"
    /\ data_call.fn = "opposite"
    /\ data_ret' = opposite(data_call.direction)
    /\ pc' = "returned"
    /\ DataUnchanged

\* pos.neighbor(direction)
Neighbor ==
    /\ pc = "call"
    /\ data_call.fn = "neighbor"
    /\ data_ret' = neighbor(data_call.pos, data_call.direction)
    /\ pc' = "returned"
    /\ DataUnchanged

NextData ==
    \/ Cmp
    \/ HeapPop
    \/ GridIdx
    \/ GridToCoord
    \/ ToIdx
    \/ Opposite
    \/ Neighbor

SpecData == InitData /\ [][NextData]_vars

(***************************************************************************)
(* Two executions of restart() on the same one-cell state.  The program has *)
(* no seed: choose_sample_index and distribute_entropy_noise take           *)
(* rand::thread_rng().  Here both executions are given the same values:    *)
(* seed.noise for the cell's noise and seed.draws[k] for the generator of   *)
(* candidate k.                                                            *)
(***************************************************************************)
\* The generator yields values in 0 .. MaxDraw.
MaxDraw == 2

\* rng.gen_range(0..n) on the value u of the generator: the high part of the
\* product of u and n.
gen_range(u, n) == (u * n) \div (MaxDraw + 1)

Seeds == [noise : NoiseSet, draws : [1..CandidateCount -> 0..MaxDraw]]

\* run() on a state of one uncollapsed cell, with u the value its generator
\* yields: choose_next_cell, collapse_cell_at, propagate.
SeededRun(st, m, u) ==
    LET e == CHOOSE entry \in PopCandidates(st.heap) : TRUE
        i == idx(st.grid, e.coord).some + 1
        cell == st.grid.data[i]
        chosen == choose_sample_index(
                      cell, m, gen_range(u, cell.sum_of_possible_tile_weights))
        collapsed == [cell EXCEPT !.is_collpased = TRUE, !.possible = {chosen.some}]
        after == propagate([grid |-> [st.grid EXCEPT !.data[i] = collapsed],
                            heap |-> st.heap (-) SetToBag({e}),
                            queue |-> RemovalsOf(cell.possible \ {chosen.some},
                                                 e.coord)], m)
    IN  IF cell.sum_of_possible_tile_weights = 0
        THEN [status |-> "Failed", grid |-> st.grid]
        ELSE [status |-> "Succeeded", grid |-> after.grid]

\* The grids find_any(|_| true) may return: that of any candidate that succeeded.
find_any(candidates_result) ==
    {candidates_result[k].grid :
        k \in {c \in DOMAIN candidates_result :
                  candidates_result[c].status = "Succeeded"}}

\* The values the first pass of restart() may return under the draws of s.
SeededRestart(st, m, s) ==
    LET found == find_any([k \in 1..CandidateCount |-> SeededRun(st, m, s.draws[k])])
    IN  IF found = {} THEN {None} ELSE {Some(g) : g \in found}

InitSeeded ==
    /\ image \in Exemplars
    /\ model = Model_create(image, NDim)
    /\ seed \in Seeds
    /\ grid = CoreState_new_grid(model, 1, 1, [i \in 1..1 |-> seed.noise])
    /\ remaining_uncollapsed_cells = grid_size(grid)
    /\ entropy_heap = CoreState_new_heap(grid)
    /\ tile_removals = <<>>
    /\ next_coord = None
    /\ skipped_entries = 0
    /\ pc = "first_execution"
    /\ twin_grids = <<>>
    /\ RestartIdle
    /\ ParIdle
    /\ SampleIdle
    /\ DataIdle
    /\ DrainIdle
    /\ CandidatesIdle
    /\ MiddleIdle

\* restart() in the first execution.
FirstExecution ==
    /\ pc = "first_execution"
    /\ \E res \in SeededRestart([grid |-> grid, heap |-> entropy_heap], model, seed) :
          twin_grids' = <<res>>
    /\ pc' = "second_execution"
    /\ UNCHANGED <<core_vars, restart_vars, par_vars, sample_vars, data_vars,
                   middle_vars, drain_vars, candidate_vars, seed>>

\* restart() in the second execution, from the same state and the same seed.
SecondExecution ==
    /\ pc = "second_execution"
    /\ \E res \in SeededRestart([grid |-> grid, heap |-> entropy_heap], model, seed) :
          twin_grids' = Append(twin_grids, res)
    /\ pc' = "both_returned"
    /\ UNCHANGED <<core_vars, restart_vars, par_vars, sample_vars, data_vars,
                   middle_vars, drain_vars, candidate_vars, seed>>

NextSeeded ==
    \/ FirstExecution
    \/ SecondExecution

SpecSeeded == InitSeeded /\ [][NextSeeded]_vars

(***************************************************************************)
(* CoreState::par_process with collapse_middle and the runs of the four    *)
(* quadrants computed: CoreState::new, the loop of collapse_middle over    *)
(* collapse_target one entry at a time, the extraction of the quadrants,   *)
(* their restart() calls and the assembly of the output.                   *)
(***************************************************************************)
MiddleExemplars ==
    { Image(1, 1, <<0>>),
      Image(2, 2, <<0, 1, 0, 0>>) }

\* The noise of the cells of a grid of n cells: rising or falling with the
\* index, so that no two cells have the same noise.
MiddleNoises(n) == {[i \in 1..n |-> i], [i \in 1..n |-> n + 1 - i]}

\* The locals sample_size, middle, vertical_middle, x and y of collapse_middle.
MiddleLocals(g, m) ==
    LET sample_size == m.samples[1].region.width
    IN  [sample_size |-> sample_size,
         middle |-> g.width \div 2,
         vertical_middle |-> g.height \div 2,
         x |-> (g.width \div 2) - ((sample_size \div 2) + 1),
         y |-> (g.height \div 2) - ((sample_size \div 2) + 1)]

\* in_horizontal || in_vertical for the position pos.
InStrip(l, pos) ==
    \/ AsUsize(pos.x) > l.x /\ AsUsize(pos.x) < l.x + l.sample_size + 1
    \/ AsUsize(pos.y) > l.y /\ AsUsize(pos.y) < l.y + l.sample_size + 1

\* The entries of every cell of g, in the order of the loops over pos_y and
\* pos_x, with the entropy read from the cell.
CellEntries(g) ==
    [i \in 1..grid_size(g) |->
        EntropyCoord(entropy(g.data[i]), to_coord(g, i - 1).some)]

\* The first loop of collapse_middle: an entry for every cell of the strip.
StripEntries(g, m) ==
    LET in_strip(e) == InStrip(MiddleLocals(g, m), e.coord)
    IN  BagOfSeq(SelectSeq(CellEntries(g), in_strip))

\* forced_collapse with remaining_uncollapsed_cells decremented whatever
\* collapse_cell_at returns.
forced_collapse_always_counting(cs, m, position, r) ==
    LET i == idx(cs.grid, position).some + 1
        cell == cs.grid.data[i]
        chosen == choose_sample_index(cell, m, r)
        collapsed == [cell EXCEPT !.is_collpased = TRUE, !.possible = {chosen.some}]
        st == propagate([grid |-> [cs.grid EXCEPT !.data[i] = collapsed],
                         heap |-> cs.heap,
                         queue |-> cs.queue \o
                             RemovalsOf(cell.possible \ {chosen.some}, position)], m)
    IN  IF cell.sum_of_possible_tile_weights = 0
        THEN [cs EXCEPT !.status = "Failed", !.remaining = @ - 1]
        ELSE IF chosen = Unreachable
        THEN [cs EXCEPT !.status = "Panicked"]
        ELSE [grid |-> st.grid, heap |-> st.heap, queue |-> st.queue,
              remaining |-> cs.remaining - 1, status |-> "Succeeded"]

\* self.forced_collapse(position) with r the value of the roulette: [grid,
\* heap, queue, remaining, status].
forced_collapse(cs, m, position, r) ==
    LET i == idx(cs.grid, position).some + 1
        cell == cs.grid.data[i]
        chosen == choose_sample_index(cell, m, r)
        collapsed == [cell EXCEPT !.is_collpased = TRUE, !.possible = {chosen.some}]
        st == propagate([grid |-> [cs.grid EXCEPT !.data[i] = collapsed],
                         heap |-> cs.heap,
                         queue |-> cs.queue \o
                             RemovalsOf(cell.possible \ {chosen.some}, position)], m)
    IN  IF cell.sum_of_possible_tile_weights = 0
        THEN [cs EXCEPT !.status = "Failed"]
        ELSE IF chosen = Unreachable
        THEN [cs EXCEPT !.status = "Panicked"]
        ELSE [grid |-> st.grid, heap |-> st.heap, queue |-> st.queue,
              remaining |-> cs.remaining - 1, status |-> "Succeeded"]

RECURSIVE PushNeighbours(_, _, _, _, _)
\* The loop over ALL_DIRECTIONS after forced_collapse, from position k: the
\* neighbours in the strip whose entropy is below that of the popped entry are
\* pushed.
PushNeighbours(target, g, l, entropy_coord, k) ==
    IF k > Len(ALL_DIRECTIONS) THEN target
    ELSE LET neighbour_coord == neighbor(entropy_coord.coord, ALL_DIRECTIONS[k])
             pushed ==
                 IF /\ valid_pos(g, neighbour_coord)
                    /\ InStrip(l, neighbour_coord)
                    /\ FloatLt(entropy(CellAt(g, neighbour_coord)),
                               entropy_coord.entropy)
                 THEN target (+) SetToBag({EntropyCoord(
                          entropy(CellAt(g, neighbour_coord)), neighbour_coord)})
                 ELSE target
         IN  PushNeighbours(pushed, g, l, entropy_coord, k + 1)

\* The branch of the second loop of collapse_middle a position outside the
\* strip takes: 1 left (top left), 2 right, 3 left_bottom, 4 right_bottom, in
\* the order of the tuple returned, or 0 for none of the four.
QuadrantOf(l, pos) ==
    IF pos.x < l.middle /\ pos.y < l.vertical_middle THEN 1
    ELSE IF pos.x < l.middle /\ pos.y > l.vertical_middle THEN 3
    ELSE IF pos.x >= l.middle /\ pos.y < l.vertical_middle THEN 2
    ELSE IF pos.x >= l.middle /\ pos.y > l.vertical_middle THEN 4
    ELSE 0

\* What the branch of quadrant q subtracts from the coordinate it pushes.
QuadrantShift(l, q) ==
    Vector2(IF q \in {2, 4} THEN l.middle ELSE 0,
            IF q \in {3, 4} THEN l.vertical_middle ELSE 0)

RECURSIVE ShiftedBag(_, _)
\* The entries of the sequence s pushed with their coordinate less shift.
ShiftedBag(s, shift) ==
    IF s = <<>> THEN EmptyBag
    ELSE SetToBag({EntropyCoord(Head(s).entropy,
                                Vector2(Head(s).coord.x - shift.x,
                                        Head(s).coord.y - shift.y))})
             (+) ShiftedBag(Tail(s), shift)

\* left_entropy, right_entropy, left_bottom_entropy or right_bottom_entropy
\* after the second loop.
QuadrantHeap(g, l, q) ==
    LET pushed(e) == ~InStrip(l, e.coord) /\ QuadrantOf(l, e.coord) = q
    IN  ShiftedBag(SelectSeq(CellEntries(g), pushed), QuadrantShift(l, q))

get_remaining(g) ==
    Cardinality({i \in 1..Len(g.data) : ~g.data[i].is_collpased})

make_cs(g, remain, heap) ==
    [grid |-> g, remaining_uncollapsed_cells |-> remain, entropy_heap |-> heap,
     tile_removals |-> <<>>]

\* (left_cs, right_cs, left_bottom_cs, right_bottom_cs)
QuadrantStates(g, m) ==
    [q \in 1..4 |->
        make_cs(Quadrants(g)[q], get_remaining(Quadrants(g)[q]),
                QuadrantHeap(g, MiddleLocals(g, m), q))]

RECURSIVE run(_, _)
\* The ways run() can end on the CoreState cs: [status, grid], with Panicked
\* for an unwrap() of None and for unreachable!.
run(cs, m) ==
    IF cs.remaining_uncollapsed_cells = 0
    THEN {[status |-> "Succeeded", grid |-> cs.grid]}
    ELSE IF cs.entropy_heap = EmptyBag
    THEN {[status |-> "Failed", grid |-> cs.grid]}
    ELSE UNION {
           LET rest == cs.entropy_heap (-) SetToBag({e})
               cell == grid_get(cs.grid, e.coord)
           IN  IF cell = None
               THEN {[status |-> "Panicked", grid |-> cs.grid]}
               ELSE IF cell.some.is_collpased
               THEN run([cs EXCEPT !.entropy_heap = rest], m)
               ELSE IF cell.some.sum_of_possible_tile_weights = 0
               THEN {[status |-> "Failed", grid |-> cs.grid]}
               ELSE UNION {
                      LET res == forced_collapse(
                                     [grid |-> cs.grid, heap |-> rest,
                                      queue |-> cs.tile_removals,
                                      remaining |-> cs.remaining_uncollapsed_cells,
                                      status |-> "Succeeded"], m, e.coord, r)
                      IN  IF res.status = "Panicked"
                          THEN {[status |-> "Panicked", grid |-> cs.grid]}
                          ELSE run([grid |-> res.grid,
                                    remaining_uncollapsed_cells |-> res.remaining,
                                    entropy_heap |-> res.heap,
                                    tile_removals |-> res.queue], m) :
                      r \in 0..(cell.some.sum_of_possible_tile_weights - 1)} :
           e \in PopCandidates(cs.entropy_heap)}

\* What cs.restart(id) can do: return Some of the grid of a run that succeeded,
\* return None after retry_count passes without one, or panic with a candidate.
restart(cs, m) ==
    LET ends == run(cs, m)
    IN  {Some(res.grid) : res \in {e \in ends : e.status = "Succeeded"}}
            \cup (IF \E e \in ends : e.status = "Failed" THEN {None} ELSE {})
            \cup (IF \E e \in ends : e.status = "Panicked"
                  THEN {[panicked |-> TRUE]} ELSE {})

InitMiddle ==
    /\ image \in MiddleExemplars
    /\ model = Model_create(image, NDim)
    /\ \E d \in ParDims : width = d[1] /\ height = d[2]
    /\ grid = NoGrid
    /\ remaining_uncollapsed_cells = 0
    /\ entropy_heap = EmptyBag
    /\ tile_removals = <<>>
    /\ next_coord = None
    /\ skipped_entries = 0
    /\ pc = "new"
    /\ grid_res = <<>>
    /\ output_grid = NoGrid
    /\ assigned = {}
    /\ output_pixels = <<>>
    /\ RestartIdle
    /\ SampleIdle
    /\ DataIdle
    /\ SeededIdle
    /\ DrainIdle
    /\ CandidatesIdle
    /\ MiddleIdle

\* The head of a pass of `while res.len() < 4`: CoreState::new and the first
\* loop of collapse_middle.
MiddleNew ==
    /\ pc = "new"
    /\ Len(grid_res) < 4
    /\ \E noise \in MiddleNoises(width * height) :
          grid' = CoreState_new_grid(model, width, height, noise)
    /\ remaining_uncollapsed_cells' = grid_size(grid')
    /\ entropy_heap' = CoreState_new_heap(grid')
    /\ tile_removals' = <<>>
    /\ collapse_target' = StripEntries(grid', model)
    /\ quadrant_cs' = <<>>
    /\ pc' = "strip"
    /\ UNCHANGED <<image, model, next_coord, skipped_entries>>
    /\ UNCHANGED <<restart_vars, par_vars, sample_vars, data_vars, seeded_vars, candidate_vars, drain_vars>>

\* One pass of `while let Some(entropy_coord) = collapse_target.pop()`.
MiddleStep ==
    /\ pc = "strip"
    /\ collapse_target # EmptyBag
    /\ \E e \in PopCandidates(collapse_target) :
          LET rest == collapse_target (-) SetToBag({e})
              cell == CellAt(grid, e.coord)
              sum == cell.sum_of_possible_tile_weights
          IN  IF cell.is_collpased
              THEN /\ collapse_target' = rest
                   /\ pc' = pc
                   /\ UNCHANGED <<grid, entropy_heap, tile_removals,
                                  remaining_uncollapsed_cells>>
              ELSE \E r \in 0..(IF sum = 0 THEN 0 ELSE sum - 1) :
                     LET res == forced_collapse(
                                    [grid |-> grid, heap |-> entropy_heap,
                                     queue |-> tile_removals,
                                     remaining |-> remaining_uncollapsed_cells,
                                     status |-> "Succeeded"], model, e.coord, r)
                     IN  /\ grid' = res.grid
                         /\ entropy_heap' = res.heap
                         /\ tile_removals' = res.queue
                         /\ remaining_uncollapsed_cells' = res.remaining
                         /\ collapse_target' =
                               PushNeighbours(rest, res.grid,
                                              MiddleLocals(grid, model), e, 1)
                         /\ pc' = IF res.status = "Panicked" THEN "Panicked" ELSE pc
    /\ UNCHANGED <<image, model, next_coord, skipped_entries, quadrant_cs>>
    /\ UNCHANGED <<restart_vars, par_vars, sample_vars, data_vars, seeded_vars, candidate_vars, drain_vars>>

\* collapse_target is empty: the second loop, make_grid, get_remaining and
\* make_cs, and the return of the four CoreStates.
MiddleExtract ==
    /\ pc = "strip"
    /\ collapse_target = EmptyBag
    /\ quadrant_cs' = QuadrantStates(grid, model)
    /\ pc' = "quadrants"
    /\ UNCHANGED <<core_vars, collapse_target>>
    /\ UNCHANGED <<restart_vars, par_vars, sample_vars, data_vars, seeded_vars, candidate_vars, drain_vars>>

\* The four cs.restart(id) calls and the collect that ends the pass.
QuadrantsRestart ==
    /\ pc = "quadrants"
    /\ \E returned \in [1..4 -> UNION {restart(quadrant_cs[q], model) : q \in 1..4}] :
          /\ \A q \in 1..4 : returned[q] \in restart(quadrant_cs[q], model)
          /\ IF \E q \in 1..4 : returned[q] = [panicked |-> TRUE]
             THEN /\ pc' = "Panicked"
                  /\ grid_res' = grid_res
             ELSE /\ grid_res' = FlatMapSome(returned)
                  /\ pc' = IF Len(grid_res') < 4 THEN "new" ELSE "assemble_left"
    /\ UNCHANGED <<core_vars, middle_vars>>
    /\ UNCHANGED <<restart_vars, sample_vars, data_vars, seeded_vars, candidate_vars, drain_vars, width, height,
                   output_grid, assigned, output_pixels>>

NextMiddle ==
    \/ MiddleNew
    \/ MiddleStep
    \/ MiddleExtract
    \/ QuadrantsRestart
    \/ AssembleLeft
    \/ AssembleRight
    \/ AssembleLeftBottom
    \/ AssembleRightBottom
    \/ Render

SpecMiddle == InitMiddle /\ [][NextMiddle]_vars

(***************************************************************************)
(* collapse_middle alone, on the exemplar whose runs reach contradictions   *)
(* and on the smallest grid that has a strip.                              *)
(***************************************************************************)
InitStrip ==
    /\ image = ContradictionExemplar
    /\ model = Model_create(image, NDim)
    /\ \E d \in ParDims :
          /\ \A e \in ParDims : d[1] <= e[1] /\ d[2] <= e[2]
          /\ width = d[1] /\ height = d[2]
    /\ grid = NoGrid
    /\ remaining_uncollapsed_cells = 0
    /\ entropy_heap = EmptyBag
    /\ tile_removals = <<>>
    /\ next_coord = None
    /\ skipped_entries = 0
    /\ pc = "new"
    /\ grid_res = <<>>
    /\ output_grid = NoGrid
    /\ assigned = {}
    /\ output_pixels = <<>>
    /\ RestartIdle
    /\ SampleIdle
    /\ DataIdle
    /\ SeededIdle
    /\ DrainIdle
    /\ CandidatesIdle
    /\ MiddleIdle

NextStrip ==
    \/ MiddleNew
    \/ MiddleStep
    \/ MiddleExtract

SpecStrip == InitStrip /\ [][NextStrip]_vars

(***************************************************************************)
(* run() with propagate() followed one pass of its loop at a time.  The    *)
(* code takes the update at the front of the queue (PopFrontPass); a pass  *)
(* on an update from behind the front (PopBehindFront) is the variation of *)
(* order whose outcome is compared with that of the code.                  *)
(***************************************************************************)
DrainDims(m) ==
    {d \in (1..MaxDrainSide) \X (1..MaxDrainSide) :
        model_size(m) * d[1] * d[2] <= MaxPairs}

InitDrain ==
    /\ image \in Exemplars
    /\ model = Model_create(image, NDim)
    /\ \E d \in DrainDims(model) : \E noise \in [1..(d[1] * d[2]) -> {0}] :
          grid = CoreState_new_grid(model, d[1], d[2], noise)
    /\ remaining_uncollapsed_cells = grid_size(grid)
    /\ entropy_heap = CoreState_new_heap(grid)
    /\ tile_removals = <<>>
    /\ pc = "choose"
    /\ next_coord = None
    /\ skipped_entries = 0
    /\ RestartIdle
    /\ ParIdle
    /\ SampleIdle
    /\ DataIdle
    /\ SeededIdle
    /\ DrainIdle
    /\ CandidatesIdle
    /\ MiddleIdle

\* The call self.propagate() in run(), after collapse_cell_at returned
\* Succeeded: the queue holds what collapse_cell_at pushed.
PropagateCall ==
    /\ pc = "propagate"
    /\ fifo_fixpoint' = propagate([grid |-> grid, heap |-> entropy_heap,
                                   queue |-> tile_removals], model)
    /\ popped_behind' = FALSE
    /\ enqueued' = enqueued (+) BagOfSeq(tile_removals)
    /\ iterations' = iterations + 1
    /\ pc' = "drain"
    /\ UNCHANGED <<core_vars, restart_vars, par_vars, sample_vars, data_vars,
                   seeded_vars, candidate_vars, middle_vars>>

\* The sequence s without its element at position k.
WithoutAt(s, k) == [i \in 1..(Len(s) - 1) |-> IF i < k THEN s[i] ELSE s[i + 1]]

\* One pass of the loop of propagate on the update at position k of the queue:
\* the update leaves the queue and the four directions are handled.
PopAt(k) ==
    /\ pc = "drain"
    /\ k \in 1..Len(tile_removals)
    /\ LET rest == WithoutAt(tile_removals, k)
           st == PropagateDirections([grid |-> grid, heap |-> entropy_heap,
                                      queue |-> rest], model, tile_removals[k], 1)
       IN  /\ grid' = st.grid
           /\ entropy_heap' = st.heap
           /\ tile_removals' = st.queue
           /\ enqueued' = enqueued (+)
                 BagOfSeq(SubSeq(st.queue, Len(rest) + 1, Len(st.queue)))
    /\ popped_behind' = (popped_behind \/ k # 1)
    /\ UNCHANGED <<image, model, remaining_uncollapsed_cells, next_coord,
                   skipped_entries, pc, fifo_fixpoint, iterations>>
    /\ UNCHANGED <<restart_vars, par_vars, sample_vars, data_vars,
                   seeded_vars, candidate_vars, middle_vars>>

\* while let Some(removal_update) = self.tile_removals.pop_front() { .. }
PopFrontPass == PopAt(1)

PopBehindFront == \E k \in 2..Len(tile_removals) : PopAt(k)

\* The return of propagate without the decrement of the counter of run().
PropagateReturnNotCounted ==
    /\ pc = "drain"
    /\ tile_removals = <<>>
    /\ pc' = "choose"
    /\ UNCHANGED <<image, model, grid, remaining_uncollapsed_cells, entropy_heap,
                   tile_removals, next_coord, skipped_entries>>
    /\ UNCHANGED <<restart_vars, par_vars, sample_vars, data_vars,
                   seeded_vars, candidate_vars, drain_vars, middle_vars>>

\* pop_front gives None: propagate returns and run() decrements its counter.
PropagateReturn ==
    /\ pc = "drain"
    /\ tile_removals = <<>>
    /\ remaining_uncollapsed_cells' = remaining_uncollapsed_cells - 1
    /\ pc' = "choose"
    /\ UNCHANGED <<image, model, grid, entropy_heap, tile_removals, next_coord,
                   skipped_entries>>
    /\ UNCHANGED <<restart_vars, par_vars, sample_vars, data_vars,
                   seeded_vars, candidate_vars, drain_vars, middle_vars>>

NextDrain ==
    \/ ChooseNextCell
    \/ CollapseCellAt
    \/ PropagateCall
    \/ PopFrontPass
    \/ PopBehindFront
    \/ PropagateReturn
    \/ RunSucceeded

SpecDrain == InitDrain /\ [][NextDrain]_vars

(***************************************************************************)
(* run() pass by pass in the order of the code only, also on the exemplar  *)
(* whose runs reach emptied cells.                                         *)
(***************************************************************************)
InitPasses ==
    /\ image \in Exemplars \cup {ContradictionExemplar}
    /\ model = Model_create(image, NDim)
    /\ \E d \in GridDims : \E noise \in [1..(d[1] * d[2]) -> {0}] :
          grid = CoreState_new_grid(model, d[1], d[2], noise)
    /\ remaining_uncollapsed_cells = grid_size(grid)
    /\ entropy_heap = CoreState_new_heap(grid)
    /\ tile_removals = <<>>
    /\ pc = "choose"
    /\ next_coord = None
    /\ skipped_entries = 0
    /\ RestartIdle
    /\ ParIdle
    /\ SampleIdle
    /\ DataIdle
    /\ SeededIdle
    /\ DrainIdle
    /\ CandidatesIdle
    /\ MiddleIdle

NextPasses ==
    \/ ChooseNextCell
    \/ CollapseCellAt
    \/ PropagateCall
    \/ PopFrontPass
    \/ PropagateReturn
    \/ RunSucceeded

\* Every step of NextPasses moves pc or changes the queue.
PassTaken == pc' # pc \/ tile_removals' # tile_removals

\* run() is sequential code that keeps executing until it returns.  This is
\* WF_vars(NextPasses) with its two parts written out: NextPasses is enabled
\* exactly while run() has not returned, and its steps are the steps PassTaken.
PassesFairness ==
    \/ []<>(pc \in {"Succeeded", "Failed", "Panicked"})
    \/ []<><<PassTaken>>_vars

SpecPasses == InitPasses /\ [][NextPasses]_vars /\ PassesFairness

(***************************************************************************)
(* CoreState::restart with its candidates followed pass by pass.  The      *)
(* CoreState restart() is called on is the variables grid, entropy_heap,   *)
(* tile_removals and remaining_uncollapsed_cells; snapshot and candidates  *)
(* are the locals of restart().  Every candidate is run by its own closure *)
(* of par_iter_mut; the closures are interleaved one pass of the loop of   *)
(* run() at a time.  Once its closure has returned, a candidate is held as *)
(* what the closure returned, Ok of its grid or Err(()): the rest of its   *)
(* CoreState stays in the vector, where nothing reads it before the vector *)
(* is dropped at the end of the pass of the loop of restart().             *)
(***************************************************************************)
\* The closures in flight at one time hold at most this many cells together.
MaxBusyCells == 4

\* The exemplars and output sizes restart() is followed on.
IsolationInputs ==
    {<<Image(2, 2, <<0, 1, 0, 0>>), <<1, 1>>>>,
     <<ContradictionExemplar, <<1, 1>>>>,
     <<ContradictionExemplar, <<2, 2>>>>}

\* self.clone(): CoreState derives Clone, every field is copied.
CoreState_clone(cs) ==
    [grid |-> cs.grid, heap |-> cs.heap, queue |-> cs.queue,
     remaining |-> cs.remaining]

\* The cell a result res of choose_next_cell names in the state cs.
ChosenCell(cs, res) == cs.grid.data[idx(cs.grid, res.coord.some).some + 1]

\* The rest of a pass of the loop of run() on the candidate c once
\* choose_next_cell gave res, with r the roulette position drawn:
\* collapse_cell_at, propagate and the decrement.
run_pass_at(c, m, res, r) ==
    IF res.coord = None
    THEN [c EXCEPT !.cs.heap = res.heap, !.status = "Failed"]
    ELSE LET i == idx(c.cs.grid, res.coord.some).some + 1
             cell == c.cs.grid.data[i]
             chosen == choose_sample_index(cell, m, r)
             collapsed == [cell EXCEPT !.is_collpased = TRUE,
                                       !.possible = {chosen.some}]
             after == propagate(
                          [grid |-> [c.cs.grid EXCEPT !.data[i] = collapsed],
                           heap |-> res.heap,
                           queue |-> c.cs.queue \o
                               RemovalsOf(cell.possible \ {chosen.some},
                                          res.coord.some)], m)
         IN  IF cell.sum_of_possible_tile_weights = 0
             THEN [c EXCEPT !.cs.heap = res.heap, !.status = "Failed"]
             ELSE IF chosen = Unreachable
             THEN [c EXCEPT !.cs.heap = res.heap, !.status = "Panicked"]
             ELSE [c EXCEPT !.cs.grid = after.grid,
                            !.cs.heap = after.heap,
                            !.cs.queue = after.queue,
                            !.cs.remaining = @ - 1,
                            !.status = "running"]

\* One pass of the loop of run() on the candidate c, the return of Succeeded
\* when no cell is left included; the generator of the closure yields any
\* value of 0 .. MaxDraw.
run_pass(c, m) ==
    IF c.cs.remaining = 0 THEN {[c EXCEPT !.status = "Succeeded"]}
    ELSE {run_pass_at(c, m, res,
                      IF res.coord = None THEN 0
                      ELSE gen_range(u, ChosenCell(c.cs, res).sum_of_possible_tile_weights)) :
             res \in choose_next_cell(c.cs.grid, c.cs.heap), u \in 0..MaxDraw}

\* The noise of the cells of a grid of n cells rises with the index.
IsolationNoise(n) == [i \in 1..n |-> i]

\* The states restart() is called on: what CoreState::new gives on a grid of
\* one cell, and on a larger grid the states the first pass of a run() leaves
\* with cells to collapse, a cell without tiles among them or not.
CalledOn(g, m) ==
    LET fresh == [cs |-> [grid |-> g, heap |-> CoreState_new_heap(g),
                          queue |-> <<>>, remaining |-> grid_size(g)],
                  status |-> "cloned"]
        total == total_possible_tile_freq(g.data[1], m)
        passed == {run_pass_at(fresh, m, res, r) :
                      res \in choose_next_cell(fresh.cs.grid, fresh.cs.heap),
                      r \in 0..(total - 1)}
    IN  IF grid_size(g) = 1 THEN {fresh.cs}
        ELSE {c.cs : c \in {p \in passed : p.status = "running"}}

ClosureReturned(c) == c.status \in {"Succeeded", "Failed", "Panicked"}

\* What the closure makes of the (status, grid) that run() returned.
closure_result(c) ==
    IF c.status = "Succeeded" THEN [status |-> "Succeeded", grid |-> c.cs.grid]
    ELSE IF c.status \in {"Failed", "Panicked"} THEN [status |-> c.status]
    ELSE c

InFlight == {k \in DOMAIN candidates : candidates[k].status = "running"}

InitCandidates ==
    /\ \E input \in IsolationInputs :
          /\ image = input[1]
          /\ model = Model_create(image, NDim)
          /\ \E cs \in CalledOn(CoreState_new_grid(
                                   model, input[2][1], input[2][2],
                                   IsolationNoise(input[2][1] * input[2][2])),
                               model) :
             /\ grid = cs.grid
             /\ remaining_uncollapsed_cells = cs.remaining
             /\ entropy_heap = cs.heap
             /\ tile_removals = cs.queue
    /\ next_coord = None
    /\ skipped_entries = 0
    /\ pc = "restart_entry"
    /\ process_id \in {0}
    /\ restart_count = 0
    /\ statuses = <<>>
    /\ restart_result = None
    /\ snapshot = <<>>
    /\ candidates = <<>>
    /\ ParIdle
    /\ SampleIdle
    /\ DataIdle
    /\ SeededIdle
    /\ DrainIdle
    /\ MiddleIdle

\* let snapshot = self.clone(); let mut count = 0;
RestartEntry ==
    /\ pc = "restart_entry"
    /\ snapshot' = CoreState_clone([grid |-> grid, heap |-> entropy_heap,
                                    queue |-> tile_removals,
                                    remaining |-> remaining_uncollapsed_cells])
    /\ restart_count' = 0
    /\ pc' = "restart_loop"
    /\ UNCHANGED <<core_vars, process_id, statuses, restart_result, candidates,
                   par_vars, sample_vars, data_vars, seeded_vars, drain_vars,
                   middle_vars>>

\* count += 1; let mut candidates = vec![snapshot.clone(); 4];
RoundBegin ==
    /\ pc = "restart_loop"
    /\ restart_count' = restart_count + 1
    /\ candidates' = [k \in 1..CandidateCount |->
                         [cs |-> CoreState_clone(snapshot), status |-> "cloned"]]
    /\ pc' = "candidates"
    /\ UNCHANGED <<core_vars, process_id, statuses, restart_result, snapshot,
                   par_vars, sample_vars, data_vars, seeded_vars, drain_vars,
                   middle_vars>>

\* The variant in which the first element of the vector is the snapshot itself.
CandidatePassOnSnapshot(k) ==
    /\ pc = "candidates"
    /\ ~ClosureReturned(candidates[k])
    /\ (Cardinality(InFlight \cup {k}) * grid_size(snapshot.grid)) <= MaxBusyCells
    /\ \E c \in run_pass(candidates[k], model) :
          /\ candidates' = [candidates EXCEPT ![k] = closure_result(c)]
          /\ snapshot' = IF k = 1 THEN c.cs ELSE snapshot
    /\ UNCHANGED <<core_vars, pc, restart_vars, par_vars, sample_vars,
                   data_vars, seeded_vars, drain_vars, middle_vars>>

\* The closure of candidate k takes one pass of the loop of candidate.run().
CandidatePass(k) ==
    /\ pc = "candidates"
    /\ ~ClosureReturned(candidates[k])
    /\ (Cardinality(InFlight \cup {k}) * grid_size(snapshot.grid)) <= MaxBusyCells
    /\ \E c \in run_pass(candidates[k], model) :
          candidates' = [candidates EXCEPT ![k] = closure_result(c)]
    /\ UNCHANGED <<core_vars, pc, restart_vars, snapshot, par_vars, sample_vars,
                   data_vars, seeded_vars, drain_vars, middle_vars>>

CandidatesRun == \E k \in 1..CandidateCount : CandidatePass(k)

\* No closure is in flight, and every one has returned or find_any has its
\* result and the closures not begun are skipped: find_any(|_| true), then the
\* test of count.
RoundEnd ==
    /\ pc = "candidates"
    /\ InFlight = {}
    /\ \/ \A k \in 1..CandidateCount : ClosureReturned(candidates[k])
       \/ \E k \in 1..CandidateCount : candidates[k].status = "Succeeded"
    /\ statuses' = [k \in 1..CandidateCount |-> candidates[k].status]
    /\ LET found == find_any(candidates)
       IN  IF \E k \in 1..CandidateCount : candidates[k].status = "Panicked"
           THEN /\ restart_result' = restart_result
                /\ pc' = "Panicked"
           ELSE IF found # {}
           THEN /\ \E g \in found : restart_result' = Some(g)
                /\ pc' = "restart_returned"
           ELSE IF restart_count > retry_count
           THEN /\ restart_result' = None
                /\ pc' = "restart_returned"
           ELSE /\ restart_result' = restart_result
                /\ pc' = "restart_loop"
    /\ UNCHANGED <<core_vars, process_id, restart_count, candidate_vars,
                   par_vars, sample_vars, data_vars, seeded_vars, drain_vars,
                   middle_vars>>

NextCandidates ==
    \/ RestartEntry
    \/ RoundBegin
    \/ CandidatesRun
    \/ RoundEnd

SpecCandidates == InitCandidates /\ [][NextCandidates]_vars

(***************************************************************************)
(* Properties                                                              *)
(***************************************************************************)
AllTiles == Tiles(model)

Cells == 1..grid_size(grid)

CoordOf(i) == to_coord(grid, i - 1).some

\* The tile of a cell left with one possible tile.
TileOf(coord) == get_the_only_possible_tile_index(CellAt(grid, coord)).some

\* The pixel the output image shows for a cell.
OutputPixel(coord) == get_top_left_pixel(model.samples[TileOf(coord) + 1])

\* The NxN window of the output image with top-left corner (x0, y0).
OutputWindow(x0, y0) ==
    RegionSample([k \in 1..(NDim * NDim) |->
                     OutputPixel(Vector2(x0 + ((k - 1) % NDim), y0 + ((k - 1) \div NDim)))],
                 NDim)

\* The number of tiles still possible in the neighbour of coord in direction d
\* that allow tile t at coord.
Supporters(coord, t, d) ==
    Cardinality({u \in CellAt(grid, neighbor(coord, d)).possible :
                    t \in adjacency(model, u, opposite(d))})

EnablerCount(cell, t, d) == cell.tile_enabler_counts[t + 1][to_idx(d) + 1]

\* C1: in a run that ends Succeeded, every NxN window lying inside the output
\* image equals some pattern of the model.
C1_BoundaryFidelity ==
    pc = "Succeeded" =>
        \A x0 \in 0..(grid.width - NDim) : \A y0 \in 0..(grid.height - NDim) :
            \E k \in 1..model_size(model) : model.samples[k] = OutputWindow(x0, y0)

\* C2: whenever the removal queue is empty, the enabler count of every possible
\* tile of every cell in every direction with a neighbour in bounds is the
\* number of tiles still possible in that neighbour that allow it.
C2_EnablerCorrectness ==
    tile_removals = <<>> =>
        \A i \in Cells : \A t \in grid.data[i].possible : \A d \in Direction :
            valid_pos(grid, neighbor(CoordOf(i), d)) =>
                EnablerCount(grid.data[i], t, d) = Supporters(CoordOf(i), t, d)

C2_Witness ==
    /\ tile_removals = <<>>
    /\ pc = "choose"
    /\ \E i \in Cells : grid.data[i].is_collpased
    /\ \E i \in Cells : \E t \in grid.data[i].possible : \E d \in Direction :
          /\ ~grid.data[i].is_collpased
          /\ grid.data[i].possible # AllTiles
          /\ valid_pos(grid, neighbor(CoordOf(i), d))
          /\ EnablerCount(grid.data[i], t, d) > 0
          /\ EnablerCount(grid.data[i], t, d) < Cardinality(adjacency(model, t, d))

\* C3: in every model created, tile j is in adjacency[i][d] exactly when tile i
\* is in adjacency[j][opposite(d)], for all tiles i, j and directions d.
C3_AdjacencySymmetry ==
    pc # "create" =>
        \A i \in AllTiles : \A j \in AllTiles : \A d \in Direction :
            (j \in adjacency(model, i, d)) <=> (i \in adjacency(model, j, opposite(d)))

C3_Witness ==
    /\ pc = "new"
    /\ \E i \in AllTiles : \E j \in AllTiles : \E d \in Direction :
          /\ i # j
          /\ j \in adjacency(model, i, d)
          /\ j \notin adjacency(model, i, opposite(d))
    /\ \E i \in AllTiles : \E j \in AllTiles : \E d \in Direction :
          j \notin adjacency(model, i, d)

\* C4, as the specification states it: after CoreState::new the enabler count of every tile t in
\* every direction d is the size of adjacency[t][opposite(d)].
C4_InitialEnablersOpposite ==
    pc = "choose" =>
        \A i \in Cells : \A t \in AllTiles : \A d \in Direction :
            EnablerCount(grid.data[i], t, d)
                = Cardinality(adjacency(model, t, opposite(d)))

\* C4, as the code has it: after CoreState::new the enabler count of every tile t in every
\* direction d is the size of adjacency[t][d], the set of the same direction.
C4_InitialEnablersSameDirection ==
    pc = "choose" =>
        \A i \in Cells : \A t \in AllTiles : \A d \in Direction :
            EnablerCount(grid.data[i], t, d) = Cardinality(adjacency(model, t, d))

C4_Witness ==
    /\ pc = "choose"
    /\ \E t \in AllTiles : \E d \in Direction :
          Cardinality(adjacency(model, t, d))
              # Cardinality(adjacency(model, t, opposite(d)))

\* C5: every possible tile of every cell has a positive enabler count in all
\* four directions.
C5_EnablersPositive ==
    \A i \in Cells : \A t \in grid.data[i].possible : \A d \in Direction :
        EnablerCount(grid.data[i], t, d) > 0

\* C6, as the specification states it: the cached weight sum of every cell, collapsed or not, is the
\* sum of the weights of its possible tiles.
C6_WeightCacheAllCells ==
    \A i \in Cells :
        grid.data[i].sum_of_possible_tile_weights
            = total_possible_tile_freq(grid.data[i], model)

\* C6, as the code has it: the cached weight sum of every uncollapsed cell is the sum of
\* the weights of its possible tiles.
C6_WeightCacheUncollapsed ==
    \A i \in Cells :
        ~grid.data[i].is_collpased =>
            grid.data[i].sum_of_possible_tile_weights
                = total_possible_tile_freq(grid.data[i], model)

C6_Witness ==
    \E i \in Cells :
        /\ ~grid.data[i].is_collpased
        /\ grid.data[i].possible # AllTiles
        /\ Cardinality(grid.data[i].possible) > 1

\* a == b on f32: false when either is NaN.
FloatEq(a, b) == a # NaN /\ b # NaN /\ a = b

\* The cell remove_tile is applied to.
RemovalCell == grid.data[1]

C8_Monotonicity ==
    [][/\ \A i \in Cells :
            /\ grid'.data[i].possible \subseteq grid.data[i].possible
            /\ grid.data[i].is_collpased => grid'.data[i].is_collpased
       /\ remaining_uncollapsed_cells' <= remaining_uncollapsed_cells]_vars

C8_Witness ==
    /\ remaining_uncollapsed_cells < grid_size(grid)
    /\ remaining_uncollapsed_cells > 0
    /\ \E i \in Cells : grid.data[i].is_collpased /\ model_size(model) > 1
    /\ \E i \in Cells :
          ~grid.data[i].is_collpased /\ grid.data[i].possible # AllTiles

\* C9: the cell choose_next_cell returns is uncollapsed and no uncollapsed cell
\* has a smaller current entropy.
C9_MinimumEntropyChosen ==
    pc = "collapse" =>
        /\ ~CellAt(grid, next_coord.some).is_collpased
        /\ \A i \in Cells :
              ~grid.data[i].is_collpased =>
                  ~FloatLt(entropy(grid.data[i]), entropy(CellAt(grid, next_coord.some)))

\* C10: choose_next_cell never returns the coordinate of a collapsed cell.
C10_NeverCollapsedAgain ==
    pc = "collapse" => ~CellAt(grid, next_coord.some).is_collpased

C10_Witness ==
    /\ pc = "collapse"
    /\ skipped_entries > 0
    /\ \E e \in BagToSet(entropy_heap) : CellAt(grid, e.coord).is_collpased

\* C11: a successful collapse_cell_at(c) on an uncollapsed cell whose possible
\* set was P marks the cell collapsed, leaves possible = {t} for one t in P,
\* and appends to the removal queue exactly one RemovalUpdate(u, c) for each
\* u in P other than t, and none for t.
C11_CollapseEffect ==
    [][(pc = "collapse" /\ pc' = "propagate") =>
          LET c == next_coord.some
              before == CellAt(grid, c)
              after == CellAt(grid', c)
              P == before.possible
              n == Len(tile_removals)
              pushed == SubSeq(tile_removals', n + 1, Len(tile_removals'))
          IN  /\ ~before.is_collpased
              /\ after.is_collpased
              /\ SubSeq(tile_removals', 1, n) = tile_removals
              /\ \E t \in P :
                    /\ after.possible = {t}
                    /\ \A u \in P \ {t} :
                          Cardinality({k \in 1..Len(pushed) :
                              pushed[k] = RemovalUpdate(u, c)}) = 1
                    /\ \A k \in 1..Len(pushed) :
                          /\ pushed[k].coord = c
                          /\ pushed[k].tile_index \in P \ {t}]_vars

\* A collapse of a cell with three or more tiles has just pushed its updates.
C11_Witness ==
    /\ pc = "propagate"
    /\ Len(tile_removals) >= 2
    /\ CellAt(grid, next_coord.some).is_collpased

\* C12: once a remove_tile performed during propagate has left a cell with an
\* empty possible set, run() selects no cell, collapses no cell and does not
\* end Succeeded: the propagation step itself makes it return Failed.
C12_ContradictionReported ==
    (\E i \in Cells : grid.data[i].possible = {}) =>
        pc \notin {"collapse", "propagate", "Succeeded"}

\* C13: a run on a 3x3 grid for a model of two patterns whose adjacency sets
\* are all empty never ends Succeeded.
C13_IncompatibleRunFails ==
    (/\ model_size(model) = 2
     /\ \A t \in AllTiles : \A d \in Direction : adjacency(model, t, d) = {}
     /\ grid.width = 3 /\ grid.height = 3)
        => pc # "Succeeded"

\* C14: restart() returns None after exactly retry_count = 30 failed rounds,
\* and a round in which a candidate succeeds returns Some of its grid.
C14_GivesUpAfterCap ==
    /\ (pc = "restart_returned" /\ restart_result = None) =>
           restart_count = retry_count
    /\ (\E k \in DOMAIN statuses : statuses[k] = "Succeeded") =>
           /\ pc = "restart_returned"
           /\ restart_result # None
           /\ statuses[restart_result.some] = "Succeeded"

\* C15: if every attempt ends in contradiction, so that res never holds four
\* grids, par_process eventually stops retrying.
C15_RetryExhaustionStops ==
    [](Len(grid_res) < 4) => <>(pc # "split")

\* The quadrant cell at the global position (x, y), the split being at
\* width / 2 and height / 2: None when no quadrant has such a cell.
QuadrantCell(x, y) ==
    LET ox == IF x < width \div 2 THEN 0 ELSE width \div 2
        oy == IF y < height \div 2 THEN 0 ELSE height \div 2
        q == 1 + (IF ox = 0 THEN 0 ELSE 1) + (IF oy = 0 THEN 0 ELSE 2)
    IN  grid_get(grid_res[q], Vector2(x - ox, y - oy))

\* C16: for any requested width and height the assembled grid has
\* width * height cells, every cell (x, y) was assigned the single tile of
\* the quadrant cell at the same global position, none keeps the default
\* tile 0 unassigned, and each pixel is the top-left pixel of the cell's tile.
C16_OutputAssembled ==
    pc = "par_returned" =>
        /\ grid_size(output_grid) = width * height
        /\ Len(output_pixels) = width * height
        /\ \A x \in 0..(width - 1) : \A y \in 0..(height - 1) :
              LET pos == Vector2(x, y)
                  i == idx(output_grid, pos).some + 1
              IN  /\ pos \in assigned
                  /\ QuadrantCell(x, y) # None
                  /\ QuadrantCell(x, y).some.possible = {output_grid.data[i]}
                  /\ output_pixels[i] =
                        get_top_left_pixel(model.samples[output_grid.data[i] + 1])

\* The N x N window of the exemplar at origin (x, y), wrapped around both
\* edges, row after row: its pixel (i, j) is the exemplar's pixel at
\* ((x + i) mod width, (y + j) mod height).
ToroidalWindow(img, x, y, n) ==
    [k \in 1..(n * n) |->
        image_at(img, Vector2((x + ((k - 1) % n)) % img.width,
                              (y + ((k - 1) \div n)) % img.height))]

Origins(img) == (0..(img.width - 1)) \X (0..(img.height - 1))

\* C17: for an exemplar of any dimensions, square or not, Image::sample(N)
\* yields width * height patterns, one for each origin (x, y): the patterns are
\* the toroidal windows of the origins, each as often as origins have it.
C17_ToroidalExtraction ==
    pc # "create" =>
        LET samples == image_sample(image, NDim)
        IN  /\ Len(samples) = image.width * image.height
            /\ \A o \in Origins(image) :
                  Occurrences(samples, ToroidalWindow(image, o[1], o[2], NDim)) =
                      Cardinality({o2 \in Origins(image) :
                          ToroidalWindow(image, o2[1], o2[2], NDim) =
                              ToroidalWindow(image, o[1], o[2], NDim)})


\* The patterns Image::sample extracts, before Model::create extends them.
ExtractedSamples(img, n) ==
    LET raw == image_sample(img, n)
    IN  [k \in 1..Len(raw) |-> RegionSample(raw[k], n)]

RECURSIVE SumOfWeights(_, _)
SumOfWeights(m, k) ==
    IF k = 0 THEN 0 ELSE m.freq_map[k][1] + SumOfWeights(m, k - 1)

\* C18: the model Model::create returns lists each distinct extracted pattern
\* exactly once and nothing else, the weight of pattern i is the number of
\* extracted patterns equal to it, and (no rotation being asked for) the
\* weights sum to width * height of the exemplar.
C18_WeightsAreMultiplicities ==
    pc # "create" =>
        LET extracted == ExtractedSamples(image, NDim)
        IN  /\ \A i, j \in 1..Len(model.samples) :
                  model.samples[i] = model.samples[j] => i = j
            /\ {model.samples[i] : i \in 1..Len(model.samples)} =
                  {extracted[k] : k \in 1..Len(extracted)}
            /\ \A i \in 1..Len(model.samples) :
                  model.freq_map[i][1] = Occurrences(extracted, model.samples[i])
            /\ SumOfWeights(model, Len(model.samples)) =
                  image.width * image.height


\* Row r and column c (from 0) of a pattern.
RowOf(s, r) ==
    [x \in 1..s.region.width |-> s.region.data[r * s.region.width + x]]

ColumnOf(s, c) ==
    [y \in 1..s.region.height |-> s.region.data[(y - 1) * s.region.width + c + 1]]

\* The overlap of a, shifted one cell toward d, equals the region of b under it.
OverlapEqual(a, b, d) ==
    CASE d = "Down" ->
           \A r \in 1..(a.region.height - 1) : RowOf(a, r) = RowOf(b, r - 1)
      [] d = "Up" ->
           \A r \in 1..(a.region.height - 1) : RowOf(a, r - 1) = RowOf(b, r)
      [] d = "Right" ->
           \A c \in 1..(a.region.width - 1) : ColumnOf(a, c) = ColumnOf(b, c - 1)
      [] d = "Left" ->
           \A c \in 1..(a.region.width - 1) : ColumnOf(a, c - 1) = ColumnOf(b, c)

Uniform(s) ==
    \A i, j \in 1..Len(s.region.data) : s.region.data[i] = s.region.data[j]

SameDimensions(a, b) ==
    a.region.width = b.region.width /\ a.region.height = b.region.height

\* C19: compatible(A, B, d) returns false when the dimensions of A and B
\* differ, and otherwise true exactly when the overlap of A shifted one cell
\* toward d equals the region of B under it (Down: rows 1.. of A equal rows
\* 0.. of B, and so on); so a pattern is compatible with itself in d exactly
\* when a one-step shift in d leaves it unchanged, and a uniform pattern is
\* compatible with itself in all directions.
C19_CompatibleIsOverlapEquality ==
    pc = "compared" =>
        LET a == self_sample
            b == other_sample
            d == compat_direction.some
        IN  /\ ~SameDimensions(a, b) => compat_result = Some(FALSE)
            /\ SameDimensions(a, b) => compat_result = Some(OverlapEqual(a, b, d))
            /\ (a = b /\ Uniform(a)) => compat_result = Some(TRUE)

C19_Witness ==
    /\ pc = "compared"
    /\ compat_result = Some(TRUE)
    /\ compat_direction = Some("Up")
    /\ self_sample # other_sample
    /\ self_sample.region.width = TestSize
    /\ ~Uniform(self_sample)
    /\ ~compatible(self_sample, other_sample, "Down")

\* A quarter turn as the claim gives it: result[r][c] = source[N - 1 - c][r].
QuarterTurn(s) ==
    LET n == s.region.width
    IN  [region |->
            [width |-> n, height |-> n,
             data |-> [k \in 1..(n * n) |->
                         LET r == (k - 1) \div n
                             c == (k - 1) % n
                         IN  s.region.data[(n - 1 - c) * n + r + 1]]]]

RECURSIVE QuarterTurns(_, _)
QuarterTurns(s, k) == IF k = 0 THEN s ELSE QuarterTurn(QuarterTurns(s, k - 1))

IsSquare(s) == s.region.width = s.region.height

\* C20: on an NxN pattern, rotate_90 gives result[r][c] = source[N-1-c][r]
\* (the transpose with each row reversed), four calls in a row give the
\* pattern back, and rotate() returns [P, R(P), R2(P), R3(P)] in this order.
C20_RotateIsQuarterTurn ==
    IsSquare(self_sample) =>
        /\ pc = "rotating" =>
              /\ rotated = QuarterTurns(self_sample, quarter_turns)
              /\ quarter_turns = 4 => rotated = self_sample
        /\ pc = "rotate_returned" =>
              rotations = [k \in 1..4 |-> QuarterTurns(self_sample, k - 1)]

C20_Witness ==
    /\ pc = "rotating"
    /\ quarter_turns = 4
    /\ self_sample.region.width = TestSize
    /\ rotated = self_sample
    /\ rotate_90(self_sample) # self_sample
    /\ rotate_90(rotate_90(self_sample)) # self_sample


\* C21: after CoreState::new for a W x H grid and a model of K patterns every
\* cell has all K tiles possible, the sum of all weights as its weight sum,
\* is not collapsed and has the model's initial enabler counts; the entropy
\* heap holds exactly one entry per cell coordinate, carrying that cell's
\* entropy; the removal queue is empty; remaining_uncollapsed_cells = W * H.
C21_ConstructedState ==
    pc = "choose" =>
        /\ Len(grid.data) = grid.width * grid.height
        /\ \A i \in Cells :
              /\ grid.data[i].possible = AllTiles
              /\ grid.data[i].sum_of_possible_tile_weights =
                    SumOfWeights(model, model_size(model))
              /\ grid.data[i].is_collpased = FALSE
              /\ grid.data[i].tile_enabler_counts =
                    get_initial_tile_enabler_counts(model)
        /\ BagCardinality(entropy_heap) = grid.width * grid.height
        /\ \A x \in 0..(grid.width - 1) : \A y \in 0..(grid.height - 1) :
              CopiesIn(EntropyCoord(entropy(CellAt(grid, Vector2(x, y))),
                                    Vector2(x, y)), entropy_heap) = 1
        /\ tile_removals = <<>>
        /\ remaining_uncollapsed_cells = grid.width * grid.height

C21_Witness ==
    /\ pc = "choose"
    /\ grid.width >= 2
    /\ grid.height >= 2
    /\ model_size(model) >= 2
    /\ \E i, j \in Cells :
          grid.data[i].entropy_noise # grid.data[j].entropy_noise


Returned(fn) == pc = "returned" /\ data_call.fn = fn

\* C22: of two entries with different entropies the one with the smaller
\* entropy compares greater, and the heap pops the entry with the smallest
\* entropy first: no entry of the heap has a smaller entropy than the one
\* popped, and the entry popped has an entropy if any entry has one.
C22_SmallerEntropyFirst ==
    /\ Returned("cmp") =>
          /\ FloatLt(data_call.self.entropy, data_call.other.entropy) =>
                data_ret = "Greater"
          /\ FloatLt(data_call.other.entropy, data_call.self.entropy) =>
                data_ret = "Less"
    /\ Returned("pop") =>
          \A o \in BagToSet(data_call.heap) :
              o.entropy # NaN =>
                  /\ data_ret.some.entropy # NaN
                  /\ data_ret.some.entropy <= o.entropy

\* C23: on a W x H grid idx(p) = y * W + x for p in bounds and None for p out
\* of bounds, negative coordinates included; to_coord(idx(p)) = p for p in
\* bounds; idx(to_coord(i)) = i for i < W * H; to_coord(i) = None for
\* i >= W * H.
C23_IndexCoordBijection ==
    /\ Returned("idx") =>
          LET g == data_call.grid
              p == data_call.pos
          IN  IF p.x \in 0..(g.width - 1) /\ p.y \in 0..(g.height - 1)
              THEN /\ data_ret = Some(p.y * g.width + p.x)
                   /\ to_coord(g, data_ret.some) = Some(p)
              ELSE data_ret = None
    /\ Returned("to_coord") =>
          LET g == data_call.grid
              i == data_call.index
          IN  IF i < g.width * g.height
              THEN /\ data_ret # None
                   /\ idx(g, data_ret.some) = Some(i)
              ELSE data_ret = None

PixelsOf(g) ==
    [i \in 1..grid_size(g) |->
        get_top_left_pixel(
            model.samples[get_the_only_possible_tile_index(g.data[i]).some + 1])]

\* C25: two executions on the same exemplar, N, W, H and rotation that are
\* given the same random draws return grids that render to the same output
\* pixels.
C25_SeedDeterminism ==
    pc = "both_returned" =>
        /\ (twin_grids[1] = None) = (twin_grids[2] = None)
        /\ twin_grids[1] # None =>
              PixelsOf(twin_grids[1].some) = PixelsOf(twin_grids[2].some)

\* C27: whenever run() returns Succeeded, every cell is collapsed with exactly
\* one possible tile, and the tile of every neighbour in bounds, in direction
\* d, is in the adjacency set of the cell's tile for d.
C27_SucceededIsConsistent ==
    pc = "Succeeded" =>
        \A c \in Coords(grid) :
            /\ CellAt(grid, c).is_collpased
            /\ Cardinality(CellAt(grid, c).possible) = 1
            /\ \A d \in Direction :
                  valid_pos(grid, neighbor(c, d)) =>
                      /\ CellAt(grid, neighbor(c, d)).possible # {}
                      /\ \A u \in CellAt(grid, neighbor(c, d)).possible :
                            u \in adjacency(model, TileOf(c), d)

\* C29: when collapse_middle returns, every cell of the strip is collapsed and
\* has exactly one possible tile.
C29_StripCollapsed ==
    pc = "quadrants" =>
        \A c \in Coords(grid) :
            InStrip(MiddleLocals(grid, model), c) =>
                /\ CellAt(grid, c).is_collpased
                /\ Cardinality(CellAt(grid, c).possible) = 1

\* The origin of quadrant q of the tuple collapse_middle returns.
OriginOf(q) ==
    Vector2(IF q \in {2, 4} THEN grid.width \div 2 ELSE 0,
            IF q \in {3, 4} THEN grid.height \div 2 ELSE 0)

\* The grid of quadrant q is the rectangle of the full grid at its origin.
QuadrantGridCopied(q) ==
    LET g == quadrant_cs[q].grid
    IN  /\ Len(g.data) = g.width * g.height
        /\ \A i \in 0..(g.width - 1) : \A j \in 0..(g.height - 1) :
              grid_get(g, Vector2(i, j)) =
                  grid_get(grid, Vector2(OriginOf(q).x + i, OriginOf(q).y + j))

\* Every entry of the heap of quadrant q lies in the quadrant's grid.
QuadrantHeapInBounds(q) ==
    \A e \in BagToSet(quadrant_cs[q].entropy_heap) :
        valid_pos(quadrant_cs[q].grid, e.coord)

\* Every uncollapsed cell of the grid of quadrant q has an entry in its heap.
QuadrantHeapCovers(q) ==
    LET g == quadrant_cs[q].grid
    IN  \A i \in 0..(g.width - 1) : \A j \in 0..(g.height - 1) :
            ~grid_get(g, Vector2(i, j)).some.is_collpased =>
                \E e \in BagToSet(quadrant_cs[q].entropy_heap) :
                    e.coord = Vector2(i, j)

QuadrantRemainingCounted(q) ==
    quadrant_cs[q].remaining_uncollapsed_cells =
        Cardinality({i \in 1..Len(quadrant_cs[q].grid.data) :
                        ~quadrant_cs[q].grid.data[i].is_collpased})

\* C30: each of the four CoreStates collapse_middle returns has a grid that is
\* a copy of the rectangle of the full grid at its origin, with width * height
\* cells; a heap whose entries all lie in that grid and that has an entry for
\* every uncollapsed cell of it; and a count of remaining cells equal to the
\* number of uncollapsed cells of the grid.
C30_QuadrantExtraction ==
    pc = "quadrants" =>
        \A q \in 1..4 :
            /\ QuadrantGridCopied(q)
            /\ QuadrantHeapInBounds(q)
            /\ QuadrantHeapCovers(q)
            /\ QuadrantRemainingCounted(q)

\* The tile the assembled output_grid holds at pos.
AssembledTile(pos) == grid_get(output_grid, pos).some

\* C28: when the four quadrants have been solved and copied into output_grid,
\* the tiles of every pair of neighbouring cells of output_grid, in the same
\* quadrant or in two, satisfy the adjacency relation.
C28_SeamConsistency ==
    pc \in {"render", "par_returned"} =>
        \A pos \in Coords(output_grid) : \A d \in Direction :
            valid_pos(output_grid, neighbor(pos, d)) =>
                AssembledTile(neighbor(pos, d))
                    \in adjacency(model, AssembledTile(pos), d)

\* C26: with a model of a single pattern, for every output size, no run fails
\* or panics, no RemovalUpdate is ever in the queue, no cell loses its last
\* possible tile, no pass is started again, and every output pixel is the
\* top-left pixel of the pattern.
C26_SinglePatternTrivial ==
    model_size(model) = 1 =>
        /\ pc \notin {"Failed", "Panicked"}
        /\ tile_removals = <<>>
        /\ \A i \in 1..Len(grid.data) : grid.data[i].possible # {}
        /\ pc = "new" => grid = NoGrid
        /\ pc = "par_returned" =>
              /\ Len(output_pixels) = width * height
              /\ \A i \in 1..Len(output_pixels) :
                    output_pixels[i] = get_top_left_pixel(model.samples[1])
\* C40: EntropyCoord::cmp is a consistent order: for all entries a and b,
\* cmp(a, b) is Less exactly when cmp(b, a) is Greater, and cmp(a, b) is Equal
\* exactly when cmp(b, a) is Equal, also for two entries with the same entropy
\* and different coordinates.
C40_CmpConsistent ==
    Returned("cmp") =>
        LET back == EntropyCoord_cmp(data_call.other, data_call.self)
        IN  /\ (data_ret = "Less") <=> (back = "Greater")
            /\ (data_ret = "Equal") <=> (back = "Equal")

\* The same for entries that both have an entropy and differ in it.
C40_CmpConsistentOnDistinctEntropies ==
    (/\ Returned("cmp")
     /\ data_call.self.entropy # NaN
     /\ data_call.other.entropy # NaN
     /\ data_call.self.entropy # data_call.other.entropy) =>
        LET back == EntropyCoord_cmp(data_call.other, data_call.self)
        IN  /\ (data_ret = "Less") <=> (back = "Greater")
            /\ (data_ret = "Equal") <=> (back = "Equal")

\* C33: no stale heap entry wins.  Whenever choose_next_cell returns a
\* coordinate, the heap entry it popped for that coordinate records the entropy
\* the cell has at that moment.
C33_NoStaleEntryWins ==
    [][(pc = "choose" /\ pc' = "collapse") =>
          \A e \in BagToSet(entropy_heap (-) entropy_heap') :
              e.coord = next_coord'.some =>
                  e.entropy = entropy(CellAt(grid, e.coord))]_vars

\* C35: in a run from a freshly constructed CoreState, at every head of the
\* loop of run() remaining_uncollapsed_cells is the number of uncollapsed cells
\* and every uncollapsed cell has an entry in the entropy heap; choose_next_cell
\* never returns None while cells remain.
C35_HeapCoversUncollapsed ==
    /\ pc = "choose" =>
          /\ remaining_uncollapsed_cells =
                Cardinality({i \in Cells : ~grid.data[i].is_collpased})
          /\ \A i \in Cells :
                ~grid.data[i].is_collpased =>
                    \E e \in BagToSet(entropy_heap) : e.coord = CoordOf(i)
    /\ ~(pc = "Failed" /\ next_coord = None)

\* A head of the loop after a collapse, with cells left and entries of collapsed
\* cells still in the heap.
C35_Witness ==
    /\ pc = "choose"
    /\ remaining_uncollapsed_cells > 0
    /\ remaining_uncollapsed_cells < grid_size(grid)
    /\ \E e \in BagToSet(entropy_heap) : CellAt(grid, e.coord).is_collpased

\* C36: choose_sample_index returns None exactly when the cell's weight sum is
\* 0, and otherwise Some(t) with t one of the cell's possible tiles, whatever
\* position the generator draws; on the calls collapse_cell_at makes during a
\* run the unreachable!() after the roulette loop is never reached.
C36_ChooseSampleIndex ==
    /\ pc = "collapse" =>
          LET cell == CellAt(grid, next_coord.some)
          IN  IF cell.sum_of_possible_tile_weights = 0
              THEN choose_sample_index(cell, model, 0) = None
              ELSE \A r \in 0..(cell.sum_of_possible_tile_weights - 1) :
                      LET chosen == choose_sample_index(cell, model, r)
                      IN  /\ chosen # None
                          /\ chosen # Unreachable
                          /\ chosen.some \in cell.possible
    /\ pc # "Panicked"
    /\ (pc = "Failed" /\ next_coord # None) =>
          CellAt(grid, next_coord.some).sum_of_possible_tile_weights = 0
    /\ pc = "propagate" =>
          CellAt(grid, next_coord.some).sum_of_possible_tile_weights # 0

\* collapse_cell_at has returned Failed on a cell propagate had emptied, after
\* an earlier cell was collapsed to a tile the roulette chose.
C36_Witness ==
    /\ pc = "Failed"
    /\ next_coord # None
    /\ CellAt(grid, next_coord.some).possible = {}
    /\ CellAt(grid, next_coord.some).sum_of_possible_tile_weights = 0
    /\ \E i \in Cells : grid.data[i].is_collpased

\* C38: the grid does not wrap around.  For every cell and every direction in
\* which the cell has no neighbour inside the grid (the neighbour coordinate is
\* negative or past the last column or row), the enabler count of every tile
\* in that direction has the value CoreState::new gave it, in every state of
\* the run.
C38_NoNeighbourNoDecrement ==
    \A i \in Cells : \A d \in Direction :
        grid_get(grid, neighbor(CoordOf(i), d)) = None =>
            \A t \in AllTiles :
                EnablerCount(grid.data[i], t, d) =
                    get_initial_tile_enabler_counts(model)[t + 1][to_idx(d) + 1]

\* After a propagation: a cell on the edge has lost support for a tile from a
\* neighbour inside the grid, and has a direction with no neighbour.
C38_Witness ==
    /\ pc = "choose"
    /\ \E i \in Cells : \E d, e \in Direction : \E t \in AllTiles :
          /\ grid_get(grid, neighbor(CoordOf(i), d)) = None
          /\ neighbor(CoordOf(i), d).x < 0
          /\ grid_get(grid, neighbor(CoordOf(i), e)) # None
          /\ EnablerCount(grid.data[i], t, e) <
                get_initial_tile_enabler_counts(model)[t + 1][to_idx(e) + 1]
          /\ ~grid.data[i].is_collpased
          /\ t \notin grid.data[i].possible

\* C37: collapse_cell_at on a cell whose weight sum is 0 returns Failed and
\* changes nothing: for every entry collapse_middle may pop next whose cell is
\* uncollapsed with weight sum 0, forced_collapse returns Failed with the grid
\* (collapsed flag and possible set of the cell included), the heap, the
\* removal queue and remaining_uncollapsed_cells as they were; the counter
\* therefore stays the number of uncollapsed cells.
C37_FailedCollapseChangesNothing ==
    pc = "strip" =>
        LET cs == [grid |-> grid, heap |-> entropy_heap, queue |-> tile_removals,
                   remaining |-> remaining_uncollapsed_cells,
                   status |-> "Succeeded"]
        IN  /\ \A e \in PopCandidates(collapse_target) :
                  (/\ ~CellAt(grid, e.coord).is_collpased
                   /\ CellAt(grid, e.coord).sum_of_possible_tile_weights = 0) =>
                      forced_collapse(cs, model, e.coord, 0) =
                          [cs EXCEPT !.status = "Failed"]
            /\ remaining_uncollapsed_cells =
                  Cardinality({i \in Cells : ~grid.data[i].is_collpased})

\* forced_collapse has failed on a cell of the strip: the cell has weight sum 0,
\* is still uncollapsed and its entry has left collapse_target; another such
\* cell is about to be popped.
C37_Witness ==
    /\ pc = "strip"
    /\ \E i \in Cells :
          /\ InStrip(MiddleLocals(grid, model), CoordOf(i))
          /\ ~grid.data[i].is_collpased
          /\ grid.data[i].sum_of_possible_tile_weights = 0
          /\ \A e \in BagToSet(collapse_target) : e.coord # CoordOf(i)
    /\ \E e \in PopCandidates(collapse_target) :
          /\ ~CellAt(grid, e.coord).is_collpased
          /\ CellAt(grid, e.coord).sum_of_possible_tile_weights = 0

\* C31: propagation is confluent.  From the state collapse_cell_at leaves,
\* handling the queued removal updates in any order ends, once the queue is
\* empty, with the possible set and the enabler counts of every cell that the
\* front-first order of the code gives; the heap entries pushed may differ.
C31_Confluence ==
    (fifo_fixpoint # <<>> /\ pc # "propagate" /\ tile_removals = <<>>) =>
        \A i \in Cells :
            /\ grid.data[i].possible = fifo_fixpoint.grid.data[i].possible
            /\ grid.data[i].tile_enabler_counts =
                  fifo_fixpoint.grid.data[i].tile_enabler_counts

\* A propagation has ended in which an update was taken from behind the front,
\* tiles were removed from a cell, and the heap differs from the one the
\* front-first order leaves.
C31_Witness ==
    /\ pc = "choose"
    /\ popped_behind
    /\ fifo_fixpoint # <<>>
    /\ entropy_heap # fifo_fixpoint.heap
    /\ \E i \in Cells :
          ~grid.data[i].is_collpased /\ grid.data[i].possible # AllTiles

\* C32: no double removal.  In every pass of propagate each tile it removes
\* from a cell (and enqueues) was possible in that cell before the pass, in an
\* uncollapsed cell, and is no longer possible after it; no (tile, coordinate)
\* pair is enqueued twice in a run; no enabler count and no cached weight sum
\* goes below zero.
C32_NoDoubleRemoval ==
    /\ [](/\ \A r \in BagToSet(enqueued) : CopiesIn(r, enqueued) = 1
          /\ \A i \in Cells :
                /\ grid.data[i].sum_of_possible_tile_weights >= 0
                /\ \A t \in AllTiles : \A d \in Direction :
                      EnablerCount(grid.data[i], t, d) >= 0)
    /\ [][(pc = "drain" /\ pc' = "drain") =>
             \A r \in BagToSet(enqueued' (-) enqueued) :
                /\ r.tile_index \in CellAt(grid, r.coord).possible
                /\ ~CellAt(grid, r.coord).is_collpased
                /\ r.tile_index \notin CellAt(grid', r.coord).possible]_vars

\* During a propagation a tile that propagate removed from an uncollapsed cell
\* has since lost its support in a second direction as well, and the update
\* that removed it was enqueued once.
C32_Witness ==
    /\ pc = "drain"
    /\ \E i \in Cells : \E t \in AllTiles : \E d, e \in Direction :
          /\ ~grid.data[i].is_collpased
          /\ t \notin grid.data[i].possible
          /\ d # e
          /\ EnablerCount(grid.data[i], t, d) = 0
          /\ EnablerCount(grid.data[i], t, e) = 0
          /\ get_initial_tile_enabler_counts(model)[t + 1][to_idx(d) + 1] > 0
          /\ get_initial_tile_enabler_counts(model)[t + 1][to_idx(e) + 1] > 0
          /\ CopiesIn(RemovalUpdate(t, CoordOf(i)), enqueued) = 1

\* The passes of the loop of run() begun so far: those that reached propagate
\* and the one that is under way or ended the run before reaching it.
LoopIterations ==
    iterations + (IF pc \in {"collapse", "Failed", "Panicked"} THEN 1 ELSE 0)

\* C34: termination.  Every propagate returns (its queue is drained after
\* finitely many passes), a whole run enqueues at most K*W*H removal updates
\* for K tiles on a W x H grid, and run() returns Succeeded or Failed after at
\* most W*H passes of its loop.
C34_Termination ==
    /\ [](/\ BagCardinality(enqueued) <= model_size(model) * grid_size(grid)
          /\ LoopIterations <= grid_size(grid))
    /\ (pc = "drain") ~> (pc = "choose")
    /\ <>(pc \in {"Succeeded", "Failed"})

\* run() has returned Succeeded after one pass per cell on a grid of several
\* cells, with removal updates handled on the way.
C34_Witness ==
    /\ pc = "Succeeded"
    /\ grid_size(grid) > 1
    /\ iterations = grid_size(grid)
    /\ BagCardinality(enqueued) > grid_size(grid)
    /\ tile_removals = <<>>

\* C39: restart() leaves the CoreState it is called on as it was, the
\* snapshot taken at entry never changes, every candidate of every round,
\* the rounds after a failed one included, is a clone of that snapshot until
\* its closure takes its first pass, and a candidate changes only by a pass
\* of run() on that candidate, in a step that leaves the other candidates as
\* they were.
C39_RetryIsolation ==
    /\ [](snapshot # <<>> =>
             /\ snapshot = [grid |-> grid, heap |-> entropy_heap,
                            queue |-> tile_removals,
                            remaining |-> remaining_uncollapsed_cells]
             /\ \A k \in DOMAIN candidates :
                   candidates[k].status = "cloned" => candidates[k].cs = snapshot)
    /\ [][snapshot # <<>> =>
             /\ snapshot' = snapshot
             /\ UNCHANGED <<grid, entropy_heap, tile_removals,
                            remaining_uncollapsed_cells>>]_vars
    /\ [][(pc = "candidates" /\ pc' = "candidates") =>
             \A k \in 1..CandidateCount :
                candidates'[k] # candidates[k] =>
                   /\ ~ClosureReturned(candidates[k])
                   /\ candidates'[k] \in {closure_result(c) :
                                            c \in run_pass(candidates[k], model)}
                   /\ \A j \in 1..CandidateCount \ {k} :
                         candidates'[j] = candidates[j]]_vars

\* A round after a failed one, with one closure returned with Failed and
\* another candidate still the clone its round began with.
C39_Witness ==
    /\ pc = "candidates"
    /\ restart_count >= 2
    /\ \E k \in 1..CandidateCount : candidates[k].status = "Failed"
    /\ \E j \in 1..CandidateCount :
          /\ candidates[j].status = "cloned"
          /\ candidates[j].cs.grid = grid
          /\ candidates[j].cs.heap = entropy_heap

=============================================================================
